---- MODULE Spec2Model ----
(***************************************************************************)
(* shade-conductor: the state mirror and broadcast hub (server.ts), the    *)
(* OSC bridge (osc/osc-bridge.ts), the perform tools and the setlist       *)
(* playback engine (tools/audio-tools.ts), as one state machine.           *)
(*                                                                         *)
(* Time is in milliseconds.  A JavaScript null is written as 0 for the     *)
(* timer handle and for playbackStartedAt (the code only tests both for    *)
(* truthiness, and Date.now() and a Timeout object are never falsy) and as *)
(* the string "null" for names and ids.                                    *)
(***************************************************************************)
EXTENDS Integers, Sequences, FiniteSets, TLC

VARIABLES
  \* tools/audio-tools.ts, setlist playback engine state (lines 171-176)
  activeSetlist, playbackTimer, playbackStartedAt, currentChapterIndex,
  isPaused, pauseOffset,
  \* the event loop: armed setTimeout timers, handlers suspended at an await,
  \* the detached flash timers of pushChapter, and the wall clock
  timers, tasks, flashTimers, now,
  \* store/preset-store.ts: the names that resolve
  presets, setlists,
  \* server.ts, the state mirror (lines 23-66)
  extChannels, extXY, bpm, audioBindings, currentShaderId, currentShaderCode,
  currentPalette, setlistPlayback,
  \* tools/audio-tools.ts, the audio tools' own list of bindings (line 12)
  activeBindings,
  \* osc/osc-bridge.ts (lines 39-41): the bridge's instance (0: null), its port
  \* (Null: null) and the custom mapping table; and the UDP listeners that are
  \* open, each with the port it is bound to
  oscInstance, currentPort, customMappings, listeners,
  \* tools/shader-tools.ts: the pending validation callbacks (ids), the armed
  \* timeout timers, the number of requests made so far (the k-th request has
  \* id k) and, per request, the values its promise's resolve was called with
  validationCallbacks, validationTimers, requested, resolutions,
  \* server.ts, the broadcast hub: the client set and each socket's readyState
  clients, readyState,
  \* server.ts (line 49): the last state report of a renderer (Null: null)
  lastRuntimeState,
  \* observation of the last step: the messages each socket was sent, the
  \* messages handed to broadcastToClients, and what the handler returned
  sent, bcast, last,
  \* what renderers connected all along have been told last, per message kind
  wire,
  \* history: is the chapter clock running, and the unpaused time spent in
  \* the current chapter
  running, chapterClock,
  \* history: the indices of the chapters emitted since the last load
  emitted,
  \* history: every message handed to broadcastToClients, in order
  stream

schedVars == <<activeSetlist, playbackTimer, playbackStartedAt,
               currentChapterIndex, isPaused, pauseOffset>>
loopVars == <<timers, tasks, flashTimers>>
storeVars == <<presets, setlists>>
inputVars == <<extChannels, extXY, bpm>>
mirrorVars == <<extChannels, extXY, bpm, audioBindings, currentShaderId,
                currentShaderCode, currentPalette>>
hubVars == <<clients, readyState>>
oscVars == <<oscInstance, currentPort, customMappings, listeners>>
validVars == <<validationCallbacks, validationTimers, requested, resolutions>>
toolVars == <<activeBindings, oscVars, validVars, lastRuntimeState>>
histVars == <<wire, running, chapterClock, emitted, stream>>
vars == <<activeSetlist, playbackTimer, playbackStartedAt, currentChapterIndex,
          isPaused, pauseOffset, timers, tasks, flashTimers, now, presets,
          setlists, extChannels, extXY, bpm, audioBindings, currentShaderId,
          currentShaderCode, currentPalette, setlistPlayback, activeBindings,
          oscInstance, currentPort, customMappings, listeners,
          validationCallbacks, validationTimers, requested, resolutions, clients,
          readyState, lastRuntimeState, sent, bcast, last, wire, running,
          chapterClock, emitted, stream>>

Null == "null"
None == <<>>
Some(x) == <<x>>

\* ------------------------------------------------------------------ bounds

\* the wall clock stops advancing at Now0 + MaxTicks * TickMs
MaxTicks == 2
\* at most this many handlers suspended at an await at a time
MaxTasks == 2

\* an ext channel is set only while the broadcast stream is shorter than this
MaxStream == 6
\* at most this many armed chapter timers, counting the ones that suspended
\* handlers are about to arm
MaxTimers == 2
\* at most this many UDP listeners open at a time
MaxListeners == 2
\* at most this many shader validation requests are made
MaxValidations == 2
\* at most this many chapters are emitted in a playback with jumps
MaxEmitted == 3


\* chapter times are in seconds and timers in milliseconds
MsPerSecond == 1000
\* requestValidation's default timeoutMs
ValidationTimeoutMs == 5000
\* the wall clock advances in whole seconds; Date.now() is never 0
TickMs == MsPerSecond
Now0 == TickMs

\* ----------------------------------------------------------------- library

Max(a, b) == IF a >= b THEN a ELSE b

Black == <<0, 0, 0>>
DefaultPalette == [color1 |-> Black, color2 |-> Black, color3 |-> Black, bg |-> Black]
PalRed == [color1 |-> <<1, 0, 0>>, color2 |-> Black, color3 |-> Black, bg |-> Black]
PalBlue == [color1 |-> Black, color2 |-> <<0, 0, 1>>, color3 |-> Black, bg |-> Black]

BindBass == [source |-> "bass", target |-> "u_param1", multiplier |-> 1, offset |-> 0]
BindMid == [source |-> "mid", target |-> "u_param2", multiplier |-> 2, offset |-> 0]
AutoFade == [target |-> "u_intensity", keyframes |-> <<[time |-> 0, value |-> 1]>>]

\* the preset files: name -> ShaderPreset (id and code)
PresetNames == {"p1", "p2", "p3"}
\* shader names that chapters of setlist "C" refer to and no preset file has
GhostNames == {"p8", "p9"}
PresetFile(name) ==
  CASE name = "p1" -> [id |-> "id1", code |-> "glsl1"]
    [] name = "p2" -> [id |-> "id2", code |-> "glsl2"]
    [] OTHER -> [id |-> "id3", code |-> "glsl3"]

Chapter(name, shader, s, e, tr, td, params, palette, bindings, automations) ==
  [name |-> name, shader |-> shader, start_time |-> s, end_time |-> e,
   transition_in |-> tr, transition_duration |-> td, params |-> params,
   palette |-> palette, audio_bindings |-> bindings, automations |-> automations]

\* the setlist files: name -> chapters.  Times are in seconds.  "C" names two
\* shaders that have no preset file; "D" has three chapters of one second;
\* "F" opens with a flash transition; in "G" two chapters overlap in time and
\* have the same name up to case, and a gap precedes the last chapter.
SetlistNames == {"A", "B", "C", "D", "F", "G"}
SetlistFile(name) ==
  CASE name = "A" ->
         << Chapter("Intro", "p1", 0, 1, "cut", 1, <<<<"u_speed", 2>>>>,
                    Some(PalRed), <<>>, <<>>),
            Chapter("Drop", "p2", 1, 3, "crossfade", 1,
                    <<<<"u_speed", 1>>, <<"u_intensity", 3>>>>,
                    Some(PalBlue), <<BindBass, BindMid>>, <<AutoFade>>),
            Chapter("Outro", "p1", 3, 4, "cut", 1, <<>>, None, <<>>, <<>>) >>
    [] name = "B" ->
         << Chapter("Solo", "p1", 0, 1, "cut", 1, <<>>, None, <<>>, <<>>),
            Chapter("End", "p1", 1, 2, "cut", 1, <<>>, Some(PalRed), <<>>, <<>>) >>
    [] name = "C" ->
         << Chapter("One", "p8", 0, 1, "cut", 1, <<>>, None, <<>>, <<>>),
            Chapter("Two", "p1", 1, 2, "cut", 1, <<>>, None, <<>>, <<>>),
            Chapter("Three", "p9", 2, 3, "cut", 1, <<>>, None, <<>>, <<>>) >>
    [] name = "G" ->
         << Chapter("Loop", "p1", 0, 2, "cut", 1, <<>>, None, <<>>, <<>>),
            Chapter("loop", "p2", 1, 3, "cut", 1, <<>>, None, <<>>, <<>>),
            Chapter("Coda", "p3", 4, 5, "cut", 1, <<>>, None, <<>>, <<>>) >>
    [] name = "D" ->
         << Chapter("One", "p1", 0, 1, "cut", 1, <<>>, None, <<>>, <<>>),
            Chapter("Two", "p2", 1, 2, "crossfade", 1, <<>>, None, <<>>, <<>>),
            Chapter("Three", "p3", 2, 3, "cut", 1, <<>>, None, <<>>, <<>>) >>
    [] OTHER ->
         << Chapter("Flash", "p3", 0, 2, "flash", 2, <<>>, None, <<>>, <<>>),
            Chapter("After", "p1", 2, 3, "cut", 1, <<>>, None, <<>>, <<>>) >>

\* activeSetlist.chapters; the chapter list of null has no elements
Chapters(sl) == IF sl = Null THEN <<>> ELSE SetlistFile(sl)

Min(S) == CHOOSE x \in S : \A y \in S : x <= y

\* Array.prototype.findIndex, given the 1-based positions of the elements
\* that satisfy the test: the 0-based index of the first one, or -1
FindIndex(hits) == IF hits = {} THEN -1 ELSE Min(hits) - 1

\* String.prototype.toLowerCase on the names in play
ToLowerCase(s) ==
  CASE s \in {"Intro", "INTRO"} -> "intro"
    [] s \in {"Drop", "DROP"} -> "drop"
    [] s \in {"Outro", "OUTRO"} -> "outro"
    [] s = "Solo" -> "solo"
    [] s = "End" -> "end"
    [] s \in {"Loop", "LOOP"} -> "loop"
    [] s = "Coda" -> "coda"
    [] OTHER -> s

\* ---------------------------------------------------------------- messages

ExtSet(i, v) == [type |-> "ext_set", channel |-> i, value |-> v]
ExtXYSet(i, x, y) == [type |-> "ext_xy_set", channel |-> i, x |-> x, y |-> y]
\* bpm is a float: the model holds every bpm value as a whole number of
\* 1/BpmScale beats per minute, so that values between 0 and 1 exist
BpmScale == 2
Bpm(x) == x * BpmScale

BpmSet(b) == [type |-> "bpm_set", bpm |-> b]
ShaderPush(code, id) == [type |-> "shader_push", code |-> code, id |-> id]
ShaderCrossfade(code, id, d) ==
  [type |-> "shader_crossfade", code |-> code, id |-> id, duration |-> d]
PerformFlash(d) == [type |-> "perform_flash", duration |-> d]
ParamSet(name, value) == [type |-> "param_set", name |-> name, value |-> value]
PaletteSet(colors) == [type |-> "palette_set", colors |-> colors]
AudioBind(b) == [type |-> "audio_bind", binding |-> b]
AudioUnbind(target) == [type |-> "audio_unbind", target |-> target]
AutomationMsg(a) == [type |-> "automation", automations |-> a]
ChapterInfo(name, index, total) ==
  [type |-> "chapter_info",
   chapter |-> [name |-> name, index |-> index, total |-> total]]
GetState == [type |-> "get_state"]
ShaderValidate(code, id) == [type |-> "shader_validate", code |-> code, id |-> id]

\* ---------------------------------------------------------------- the hub

Sessions == {"r1", "r2"}

\* a hub whose sockets receive the messages of one operation last first
DeliverReversed(msgs) ==
  [s \in Sessions |->
     IF s \in clients /\ readyState[s] = "OPEN"
     THEN [k \in 1..Len(msgs) |-> msgs[Len(msgs) + 1 - k]]
     ELSE <<>>]

\* a hub that writes to every socket, registered or not
DeliverAll(msgs) == [s \in Sessions |-> msgs]

\* broadcastToClients: every socket of the client set whose readyState is OPEN
\* is sent the messages, in order
Deliver(msgs) ==
  [s \in Sessions |->
     IF s \in clients /\ readyState[s] = "OPEN" THEN msgs ELSE <<>>]

\* what a renderer that has been connected all along now shows, after msgs
RECURSIVE WireAfter(_, _)
WireAfter(w, msgs) ==
  IF msgs = <<>> THEN w
  ELSE LET m == Head(msgs)
           w1 == CASE m.type = "ext_set" /\ m.channel \in DOMAIN w.ext ->
                        [w EXCEPT !.ext[m.channel] = m.value]
                   [] m.type = "bpm_set" -> [w EXCEPT !.bpm = m.bpm]
                   [] m.type \in {"shader_push", "shader_crossfade"} ->
                        [w EXCEPT !.shader = Some([id |-> m.id, code |-> m.code])]
                   [] m.type = "palette_set" -> [w EXCEPT !.palette = m.colors]
                   [] OTHER -> w
       IN WireAfter(w1, Tail(msgs))

\* one handler's broadcasts, as seen by the sockets and by the observer
Broadcast(msgs) ==
  /\ sent' = Deliver(msgs)
  /\ bcast' = msgs

\* what a handler returned; for a handler that resumed in pushChapter, name
\* and index are the setlist and the chapter it was pushing
Result(op, result) ==
  [op |-> op, result |-> result, missing |-> <<>>, armed |-> -1,
   stale |-> FALSE, resumed |-> FALSE, session |-> Null, name |-> Null,
   index |-> -1]

Quiet == Broadcast(<<>>)

\* ------------------------------------------------- setlist playback engine

\* a new Timeout object: a handle no armed timer and no variable holds
NewTimerId ==
  Min({n \in 1..(MaxTimers + 2) :
         n # playbackTimer /\ \A t \in timers : t.id # n})

\* room for one more suspended handler, and for the timer it may arm
Room(armed) == Len(tasks) < MaxTasks /\ Cardinality(armed) + Len(tasks) < MaxTimers

\* setSetlistPlayback: Object.assign of a partial update
SetSetlistPlayback(sp, update) ==
  [k \in DOMAIN sp |-> IF k \in DOMAIN update THEN update[k] ELSE sp[k]]

\* clearPlayback: cancel the timer the handle names, if any, and drop the handle
ClearPlayback ==
  [timers |-> {t \in timers : t.id # playbackTimer}, playbackTimer |-> 0]

\* the immediate broadcasts of pushChapter once the preset has resolved, in
\* the order of the code
RECURSIVE ParamMsgs(_)
ParamMsgs(entries) ==
  IF entries = <<>> THEN <<>>
  ELSE <<ParamSet(Head(entries)[1], Head(entries)[2])>> \o ParamMsgs(Tail(entries))

RECURSIVE BindMsgs(_)
BindMsgs(bindings) ==
  IF bindings = <<>> THEN <<>>
  ELSE <<AudioBind(Head(bindings))>> \o BindMsgs(Tail(bindings))

\* pushChapter asking the renderers for their state right after the shader
\* command
ChapterBundleWithSync(chapter, preset, index, total) ==
  (CASE chapter.transition_in = "crossfade" ->
          <<ShaderCrossfade(preset.code, preset.id, chapter.transition_duration)>>
     [] chapter.transition_in = "flash" ->
          <<PerformFlash(chapter.transition_duration)>>
     [] OTHER -> <<ShaderPush(preset.code, preset.id)>>)
  \o <<GetState>>
  \o ParamMsgs(chapter.params)
  \o (IF chapter.palette # None THEN <<PaletteSet(chapter.palette[1])>> ELSE <<>>)
  \o BindMsgs(chapter.audio_bindings)
  \o (IF Len(chapter.automations) > 0
      THEN <<AutomationMsg(chapter.automations)>> ELSE <<>>)
  \o <<ChapterInfo(chapter.name, index, total)>>

\* pushChapter with the palette applied before the params
ChapterBundlePaletteFirst(chapter, preset, index, total) ==
  (CASE chapter.transition_in = "crossfade" ->
          <<ShaderCrossfade(preset.code, preset.id, chapter.transition_duration)>>
     [] chapter.transition_in = "flash" ->
          <<PerformFlash(chapter.transition_duration)>>
     [] OTHER -> <<ShaderPush(preset.code, preset.id)>>)
  \o (IF chapter.palette # None THEN <<PaletteSet(chapter.palette[1])>> ELSE <<>>)
  \o ParamMsgs(chapter.params)
  \o BindMsgs(chapter.audio_bindings)
  \o (IF Len(chapter.automations) > 0
      THEN <<AutomationMsg(chapter.automations)>> ELSE <<>>)
  \o <<ChapterInfo(chapter.name, index, total)>>

ChapterBundle(chapter, preset, index, total) ==
  (CASE chapter.transition_in = "crossfade" ->
          <<ShaderCrossfade(preset.code, preset.id, chapter.transition_duration)>>
     [] chapter.transition_in = "flash" ->
          <<PerformFlash(chapter.transition_duration)>>
     [] OTHER -> <<ShaderPush(preset.code, preset.id)>>)
  \o ParamMsgs(chapter.params)
  \o (IF chapter.palette # None THEN <<PaletteSet(chapter.palette[1])>> ELSE <<>>)
  \o BindMsgs(chapter.audio_bindings)
  \o (IF Len(chapter.automations) > 0
      THEN <<AutomationMsg(chapter.automations)>> ELSE <<>>)
  \o <<ChapterInfo(chapter.name, index, total)>>

\* scheduleNextChapter, called with the playback record sp as it stands: the
\* timers, the handle and the playback record after it, and the delay of the
\* timer it armed (-1: none)
ScheduleNextChapterLate(sp) ==
  LET chapters == Chapters(activeSetlist)
      nextIndex == currentChapterIndex + 1
      currentChapter == chapters[currentChapterIndex + 1]
      chapterDuration ==
        (currentChapter.end_time - currentChapter.start_time) * MsPerSecond
      elapsed == pauseOffset
      remaining == Max(0, chapterDuration - elapsed)
      id == NewTimerId
  IN IF activeSetlist = Null \/ isPaused
     THEN [timers |-> timers, playbackTimer |-> playbackTimer, sp |-> sp, armed |-> -1]
     ELSE IF nextIndex > Len(chapters)
     THEN [timers |-> timers, playbackTimer |-> playbackTimer,
           sp |-> SetSetlistPlayback(sp, [active |-> FALSE]), armed |-> -1]
     ELSE [timers |-> timers \cup {[id |-> id, next |-> nextIndex,
                                    due |-> now + remaining, stale |-> FALSE]},
           playbackTimer |-> id, sp |-> sp, armed |-> remaining]

ScheduleNextChapter(sp) ==
  LET chapters == Chapters(activeSetlist)
      nextIndex == currentChapterIndex + 1
      currentChapter == chapters[currentChapterIndex + 1]
      chapterDuration ==
        (currentChapter.end_time - currentChapter.start_time) * MsPerSecond
      elapsed == pauseOffset
      remaining == Max(0, chapterDuration - elapsed)
      id == NewTimerId
  IN IF activeSetlist = Null \/ isPaused
     THEN [timers |-> timers, playbackTimer |-> playbackTimer, sp |-> sp, armed |-> -1]
     ELSE IF nextIndex >= Len(chapters)
     THEN [timers |-> timers, playbackTimer |-> playbackTimer,
           sp |-> SetSetlistPlayback(sp, [active |-> FALSE]), armed |-> -1]
     ELSE [timers |-> timers \cup {[id |-> id, next |-> nextIndex,
                                    due |-> now + remaining, stale |-> FALSE]},
           playbackTimer |-> id, sp |-> sp, armed |-> remaining]

\* a handler suspended in pushChapter, at `await getPreset(chapter.shader)`:
\* the chapter object it holds (by setlist and index) and the handler to
\* return to
Task(kind, setlist, index, stale, resumed) ==
  [kind |-> kind, setlist |-> setlist, index |-> index, stale |-> stale,
   resumed |-> resumed]

\* the validation loop of setlist_load, stopping at the first unresolved name
MissingShadersFirst(chapters) ==
  LET all == SelectSeq([i \in 1..Len(chapters) |-> chapters[i].shader],
                       LAMBDA sh : sh \notin presets)
  IN IF all = <<>> THEN <<>> ELSE <<Head(all)>>

\* the validation loop of setlist_load: the shader name of every chapter whose
\* preset does not resolve, in chapter order
MissingShaders(chapters) ==
  SelectSeq([i \in 1..Len(chapters) |-> chapters[i].shader],
            LAMBDA sh : sh \notin presets)

\* setlist_load.  The validation and the arming run to completion together.
SetlistLoad(name) ==
  LET chapters == SetlistFile(name)
      missing == MissingShaders(chapters)
      cleared == ClearPlayback
  IN /\ UNCHANGED toolVars
     /\ Quiet
     /\ UNCHANGED <<tasks, flashTimers, now, storeVars, mirrorVars, hubVars>>
     /\ IF name \notin setlists
        THEN /\ last' = [Result("load", "not_found") EXCEPT !.name = name]
             /\ UNCHANGED <<schedVars, timers, setlistPlayback>>
        ELSE IF Len(missing) > 0
        THEN /\ last' = [Result("load", "missing")
                            EXCEPT !.missing = missing, !.name = name]
             /\ UNCHANGED <<schedVars, timers, setlistPlayback>>
        ELSE /\ activeSetlist' = name
             /\ currentChapterIndex' = 0
             /\ isPaused' = FALSE
             /\ pauseOffset' = 0
             /\ timers' = cleared.timers
             /\ playbackTimer' = cleared.playbackTimer
             /\ UNCHANGED playbackStartedAt
             /\ setlistPlayback' =
                  SetSetlistPlayback(setlistPlayback,
                    [active |-> FALSE, setlistName |-> name, chapterIndex |-> 0,
                     totalChapters |-> Len(chapters), startedAt |-> 0])
             /\ last' = [Result("load", "loaded") EXCEPT !.name = name]

\* setlist_play that starts the clock before it tests for a loaded setlist
SetlistPlayEager ==
  /\ UNCHANGED toolVars
  /\ Quiet
  /\ UNCHANGED <<activeSetlist, playbackTimer, currentChapterIndex, pauseOffset,
                 timers, flashTimers, now, storeVars, mirrorVars, hubVars>>
  /\ isPaused' = FALSE
  /\ playbackStartedAt' = now
  /\ IF activeSetlist = Null
     THEN /\ last' = Result("play", "no_setlist")
          /\ UNCHANGED <<setlistPlayback, tasks>>
     ELSE /\ Room(timers)
          /\ setlistPlayback' =
               SetSetlistPlayback(setlistPlayback, [active |-> TRUE, startedAt |-> now])
          /\ currentChapterIndex < Len(Chapters(activeSetlist))
          /\ tasks' = Append(tasks, Task("play", activeSetlist,
                                         currentChapterIndex, FALSE, isPaused))
          /\ last' = Result("play", "awaiting")

\* setlist_play up to its first await, inside pushChapter
SetlistPlay ==
  /\ UNCHANGED toolVars
  /\ Quiet
  /\ UNCHANGED <<activeSetlist, playbackTimer, currentChapterIndex, pauseOffset,
                 timers, flashTimers, now, storeVars, mirrorVars, hubVars>>
  /\ IF activeSetlist = Null
     THEN /\ last' = Result("play", "no_setlist")
          /\ UNCHANGED <<isPaused, playbackStartedAt, setlistPlayback, tasks>>
     ELSE /\ Room(timers)
          /\ isPaused' = FALSE
          /\ playbackStartedAt' = now
          /\ setlistPlayback' =
               SetSetlistPlayback(setlistPlayback, [active |-> TRUE, startedAt |-> now])
          /\ IF currentChapterIndex < Len(Chapters(activeSetlist))
             THEN /\ tasks' = Append(tasks, Task("play", activeSetlist,
                                                 currentChapterIndex, FALSE, isPaused))
                  /\ last' = Result("play", "awaiting")
             ELSE \* chapters[currentChapterIndex] is undefined: pushChapter rejects
                  /\ UNCHANGED tasks
                  /\ last' = Result("play", "throws")

\* setlist_pause that accumulates the pause offset before it tests isPaused
SetlistPauseAgain ==
  LET cleared == ClearPlayback
  IN /\ UNCHANGED toolVars
     /\ Quiet
     /\ UNCHANGED <<activeSetlist, playbackStartedAt, currentChapterIndex, tasks,
                    flashTimers, now, storeVars, mirrorVars, hubVars>>
     /\ IF activeSetlist = Null
        THEN /\ last' = Result("pause", "no_setlist")
             /\ UNCHANGED <<isPaused, pauseOffset, playbackTimer, timers,
                            setlistPlayback>>
        ELSE /\ isPaused' = TRUE
             /\ timers' = cleared.timers
             /\ playbackTimer' = cleared.playbackTimer
             /\ pauseOffset' = IF playbackStartedAt # 0
                               THEN pauseOffset + (now - playbackStartedAt)
                               ELSE pauseOffset
             /\ setlistPlayback' = SetSetlistPlayback(setlistPlayback, [active |-> FALSE])
             /\ last' = Result("pause", IF isPaused THEN "already_paused" ELSE "paused")

\* setlist_pause
SetlistPause ==
  LET cleared == ClearPlayback
  IN /\ UNCHANGED toolVars
     /\ Quiet
     /\ UNCHANGED <<activeSetlist, playbackStartedAt, currentChapterIndex, tasks,
                    flashTimers, now, storeVars, mirrorVars, hubVars>>
     /\ IF activeSetlist = Null
        THEN /\ last' = Result("pause", "no_setlist")
             /\ UNCHANGED <<isPaused, pauseOffset, playbackTimer, timers,
                            setlistPlayback>>
        ELSE IF isPaused
        THEN /\ last' = Result("pause", "already_paused")
             /\ UNCHANGED <<isPaused, pauseOffset, playbackTimer, timers,
                            setlistPlayback>>
        ELSE /\ isPaused' = TRUE
             /\ timers' = cleared.timers
             /\ playbackTimer' = cleared.playbackTimer
             /\ pauseOffset' = IF playbackStartedAt # 0
                               THEN pauseOffset + (now - playbackStartedAt)
                               ELSE pauseOffset
             /\ setlistPlayback' = SetSetlistPlayback(setlistPlayback, [active |-> FALSE])
             /\ last' = Result("pause", "paused")

\* the target resolution of setlist_jump with the name looked at before the
\* index and the time window closed at its end
JumpTargetNameFirst(args, chapters) ==
  LET byName == FindIndex({i \in 1..Len(chapters) :
                  ToLowerCase(chapters[i].name) = ToLowerCase(args.name[1])})
      byTime == FindIndex({i \in 1..Len(chapters) :
                  /\ args.time[1] >= chapters[i].start_time
                  /\ args.time[1] <= chapters[i].end_time})
  IN IF args.name # None /\ args.name[1] # ""
     THEN IF byName < 0 THEN [error |-> "name_not_found", index |-> -1]
          ELSE [error |-> "", index |-> byName]
     ELSE IF args.index # None
     THEN IF args.index[1] < 0 \/ args.index[1] >= Len(chapters)
          THEN [error |-> "out_of_range", index |-> -1]
          ELSE [error |-> "", index |-> args.index[1]]
     ELSE IF args.time # None
     THEN IF byTime < 0 THEN [error |-> "time_not_found", index |-> -1]
          ELSE [error |-> "", index |-> byTime]
     ELSE [error |-> "no_selector", index |-> -1]

\* the target resolution of setlist_jump with the upper index test off by one
JumpTargetLoose(args, chapters) ==
  LET byName == FindIndex({i \in 1..Len(chapters) :
                  ToLowerCase(chapters[i].name) = ToLowerCase(args.name[1])})
      byTime == FindIndex({i \in 1..Len(chapters) :
                  /\ args.time[1] >= chapters[i].start_time
                  /\ args.time[1] < chapters[i].end_time})
  IN IF args.index # None
     THEN IF args.index[1] < 0 \/ args.index[1] > Len(chapters)
          THEN [error |-> "out_of_range", index |-> -1]
          ELSE [error |-> "", index |-> args.index[1]]
     ELSE IF args.name # None /\ args.name[1] # ""
     THEN IF byName < 0 THEN [error |-> "name_not_found", index |-> -1]
          ELSE [error |-> "", index |-> byName]
     ELSE IF args.time # None
     THEN IF byTime < 0 THEN [error |-> "time_not_found", index |-> -1]
          ELSE [error |-> "", index |-> byTime]
     ELSE [error |-> "no_selector", index |-> -1]

\* the target resolution of setlist_jump: the index, or the error
JumpTarget(args, chapters) ==
  LET byName == FindIndex({i \in 1..Len(chapters) :
                  ToLowerCase(chapters[i].name) = ToLowerCase(args.name[1])})
      byTime == FindIndex({i \in 1..Len(chapters) :
                  /\ args.time[1] >= chapters[i].start_time
                  /\ args.time[1] < chapters[i].end_time})
  IN IF args.index # None
     THEN IF args.index[1] < 0 \/ args.index[1] >= Len(chapters)
          THEN [error |-> "out_of_range", index |-> -1]
          ELSE [error |-> "", index |-> args.index[1]]
     ELSE IF args.name # None /\ args.name[1] # ""
     THEN IF byName < 0 THEN [error |-> "name_not_found", index |-> -1]
          ELSE [error |-> "", index |-> byName]
     ELSE IF args.time # None
     THEN IF byTime < 0 THEN [error |-> "time_not_found", index |-> -1]
          ELSE [error |-> "", index |-> byTime]
     ELSE [error |-> "no_selector", index |-> -1]

JumpArgs(index, name, time) == [index |-> index, name |-> name, time |-> time]
JumpInputs ==
  {JumpArgs(Some(i), None, None) : i \in {1, 2}}
  \cup {JumpArgs(None, Some("DROP"), None)}

\* setlist_jump up to its first await, inside pushChapter.  The advances that
\* outlive its clearPlayback are marked stale.
SetlistJump(args) ==
  LET target == JumpTarget(args, Chapters(activeSetlist))
      cleared == ClearPlayback
  IN /\ UNCHANGED toolVars
     /\ Quiet
     /\ UNCHANGED <<activeSetlist, playbackStartedAt, isPaused, flashTimers, now,
                    storeVars, mirrorVars, hubVars>>
     /\ IF activeSetlist = Null
        THEN /\ last' = Result("jump", "no_setlist")
             /\ UNCHANGED <<currentChapterIndex, pauseOffset, playbackTimer, timers,
                            tasks, setlistPlayback>>
        ELSE IF target.error # ""
        THEN /\ last' = Result("jump", target.error)
             /\ UNCHANGED <<currentChapterIndex, pauseOffset, playbackTimer, timers,
                            tasks, setlistPlayback>>
        ELSE /\ Room(cleared.timers)
             /\ timers' = {[t EXCEPT !.stale = TRUE] : t \in cleared.timers}
             /\ playbackTimer' = cleared.playbackTimer
             /\ currentChapterIndex' = target.index
             /\ pauseOffset' = 0
             /\ setlistPlayback' =
                  SetSetlistPlayback(setlistPlayback, [chapterIndex |-> target.index])
             /\ tasks' = Append(
                  [i \in 1..Len(tasks) |->
                     IF tasks[i].kind = "timer"
                     THEN [tasks[i] EXCEPT !.stale = TRUE] ELSE tasks[i]],
                  Task("jump", activeSetlist, target.index, FALSE, FALSE))
             /\ last' = Result("jump", "awaiting")

\* the callback of a chapter timer, up to its first await inside pushChapter
TimerFire(t) ==
  /\ UNCHANGED toolVars
  /\ t \in timers
  /\ t.due <= now
  /\ Quiet
  /\ timers' = timers \ {t}
  /\ currentChapterIndex' = t.next
  /\ pauseOffset' = 0
  /\ setlistPlayback' = SetSetlistPlayback(setlistPlayback, [chapterIndex |-> t.next])
  /\ UNCHANGED <<activeSetlist, playbackTimer, playbackStartedAt, isPaused,
                 flashTimers, now, storeVars, mirrorVars, hubVars>>
  /\ IF t.next < Len(Chapters(activeSetlist))
     THEN /\ Len(tasks) < MaxTasks
          /\ tasks' = Append(tasks, Task("timer", activeSetlist, t.next, t.stale, FALSE))
          /\ last' = [Result("timer", "awaiting") EXCEPT !.stale = t.stale]
     ELSE \* activeSetlist is null, or chapters[nextIndex] is undefined: the
          \* callback rejects
          /\ UNCHANGED tasks
          /\ last' = [Result("timer", "throws") EXCEPT !.stale = t.stale]

RemoveAt(seq, i) == SubSeq(seq, 1, i - 1) \o SubSeq(seq, i + 1, Len(seq))

\* The rest of a suspended handler, once getPreset has answered: the rest of
\* pushChapter (lines 199-261), then the handler's own continuation
\* (scheduleNextChapter for setlist_play and the timer callback; for
\* setlist_jump only when not paused, after playbackStartedAt = Date.now()).
Resume(i) ==
  /\ UNCHANGED toolVars
  /\ i \in 1..Len(tasks)
  /\ LET t == tasks[i]
         chapters == SetlistFile(t.setlist)
         chapter == chapters[t.index + 1]
         found == chapter.shader \in presets
         preset == PresetFile(chapter.shader)
         rearm == t.kind # "jump" \/ ~isPaused
         sched == IF rearm THEN ScheduleNextChapter(setlistPlayback)
                  ELSE [timers |-> timers, playbackTimer |-> playbackTimer,
                        sp |-> setlistPlayback, armed |-> -1]
     IN /\ Broadcast(IF found
                     THEN ChapterBundle(chapter, preset, t.index, Len(chapters))
                     ELSE <<>>)
        /\ tasks' = RemoveAt(tasks, i)
        /\ currentShaderId' = IF found THEN preset.id ELSE currentShaderId
        /\ flashTimers' =
             IF found /\ chapter.transition_in = "flash"
             THEN flashTimers \cup
                    {[due |-> now + (chapter.transition_duration * MsPerSecond) \div 2,
                      code |-> preset.code, id |-> preset.id]}
             ELSE flashTimers
        /\ timers' = sched.timers
        /\ playbackTimer' = sched.playbackTimer
        /\ setlistPlayback' = sched.sp
        /\ playbackStartedAt' = IF t.kind = "jump" /\ ~isPaused THEN now
                                ELSE playbackStartedAt
        /\ last' = [Result(t.kind, IF found THEN "pushed" ELSE "preset_missing")
                      EXCEPT !.armed = sched.armed, !.stale = t.stale,
                             !.resumed = t.resumed, !.name = t.setlist,
                             !.index = t.index]
        /\ UNCHANGED <<activeSetlist, currentChapterIndex, isPaused, pauseOffset,
                       now, storeVars, inputVars, audioBindings, currentShaderCode,
                       currentPalette, hubVars>>

\* a delayed shader_push that is dropped when the scheduler has moved to a
\* chapter with another shader
FlashFireIfCurrent(f) ==
  /\ UNCHANGED toolVars
  /\ f \in flashTimers
  /\ f.due <= now
  /\ IF /\ activeSetlist # Null
        /\ currentChapterIndex < Len(Chapters(activeSetlist))
        /\ PresetFile(Chapters(activeSetlist)[currentChapterIndex + 1].shader).id = f.id
     THEN Broadcast(<<ShaderPush(f.code, f.id)>>) /\ last' = Result("flash", "pushed")
     ELSE Quiet /\ last' = Result("flash", "dropped")
  /\ flashTimers' = flashTimers \ {f}
  /\ UNCHANGED <<schedVars, timers, tasks, now, storeVars, mirrorVars,
                 setlistPlayback, hubVars>>

\* the detached timer of a flash transition: the delayed shader_push
FlashFire(f) ==
  /\ UNCHANGED toolVars
  /\ f \in flashTimers
  /\ f.due <= now
  /\ Broadcast(<<ShaderPush(f.code, f.id)>>)
  /\ flashTimers' = flashTimers \ {f}
  /\ last' = Result("flash", "pushed")
  /\ UNCHANGED <<schedVars, timers, tasks, now, storeVars, mirrorVars,
                 setlistPlayback, hubVars>>

\* setlist_delete
SetlistDelete(name) ==
  LET cleared == ClearPlayback
  IN /\ UNCHANGED toolVars
     /\ Quiet
     /\ setlists' = setlists \ {name}
     /\ last' = Result("delete", IF name \in setlists THEN "deleted" ELSE "not_found")
     /\ UNCHANGED <<playbackStartedAt, currentChapterIndex, pauseOffset, tasks,
                    flashTimers, now, presets, mirrorVars, hubVars>>
     /\ IF activeSetlist = name
        THEN /\ timers' = cleared.timers
             /\ playbackTimer' = cleared.playbackTimer
             /\ activeSetlist' = Null
             /\ isPaused' = FALSE
             /\ setlistPlayback' =
                  SetSetlistPlayback(setlistPlayback,
                    [active |-> FALSE, setlistName |-> Null, chapterIndex |-> 0,
                     totalChapters |-> 0, startedAt |-> 0])
        ELSE UNCHANGED <<timers, playbackTimer, activeSetlist, isPaused,
                         setlistPlayback>>

\* deletePreset: the preset file is unlinked
PresetDelete(name) ==
  /\ UNCHANGED toolVars
  /\ name \in presets
  /\ Quiet
  /\ presets' = presets \ {name}
  /\ last' = Result("preset_delete", "deleted")
  /\ UNCHANGED <<schedVars, loopVars, now, setlists, mirrorVars, setlistPlayback,
                 hubVars>>

\* the wall clock.  A due timer fires, and a pending file read completes,
\* before the clock moves on.
Tick ==
  /\ UNCHANGED toolVars
  /\ now < Now0 + MaxTicks * TickMs
  /\ tasks = <<>>
  /\ \A t \in timers : t.due > now
  /\ \A f \in flashTimers : f.due > now
  /\ now' = now + TickMs
  /\ Quiet
  /\ last' = Result("tick", "ok")
  /\ UNCHANGED <<schedVars, loopVars, storeVars, mirrorVars, setlistPlayback,
                 hubVars>>

\* ------------------------------------------------- mirror and broadcast hub

\* the sizes of the ext channel and XY pad arrays
NumExt == 16
NumXY == 4

\* the ext loop of sendSyncToClient without its test for the default
RECURSIVE ExtSyncNoSkip(_)
ExtSyncNoSkip(i) ==
  IF i >= NumExt THEN <<>>
  ELSE <<ExtSet(i, extChannels[i])>> \o ExtSyncNoSkip(i + 1)

\* sendSyncToClient: the messages sent to the connecting socket, in order
RECURSIVE ExtSyncFrom(_)
ExtSyncFrom(i) ==
  IF i >= NumExt THEN <<>>
  ELSE (IF extChannels[i] # 0 THEN <<ExtSet(i, extChannels[i])>> ELSE <<>>)
       \o ExtSyncFrom(i + 1)

RECURSIVE XYSyncFrom(_)
XYSyncFrom(i) ==
  IF i >= NumXY THEN <<>>
  ELSE (IF extXY[i].x # 0 \/ extXY[i].y # 0
        THEN <<ExtXYSet(i, extXY[i].x, extXY[i].y)>> ELSE <<>>)
       \o XYSyncFrom(i + 1)

SyncSequence ==
  ExtSyncFrom(0)
  \o XYSyncFrom(0)
  \o <<BpmSet(bpm)>>
  \o (IF currentShaderCode \notin {Null, ""} /\ currentShaderId \notin {Null, ""}
      THEN <<ShaderPush(currentShaderCode, currentShaderId)>> ELSE <<>>)
  \o <<PaletteSet(currentPalette)>>
  \o <<GetState>>

\* the sync sent through broadcastToClients instead of to the new socket
SendSyncToAll(s) ==
  [r \in Sessions |->
     IF r = s \/ (r \in clients /\ readyState[r] = "OPEN")
     THEN SyncSequence ELSE <<>>]

\* sendSyncToClient(ws): what each socket is sent
SendSyncToClient(s) ==
  [r \in Sessions |-> IF r = s THEN SyncSequence ELSE <<>>]

\* the 'connection' event of the WebSocket server: a new socket s
Connect(s) ==
  /\ UNCHANGED toolVars
  /\ readyState[s] = "NONE"
  /\ clients' = clients \cup {s}
  /\ readyState' = [readyState EXCEPT ![s] = "OPEN"]
  /\ sent' = SendSyncToClient(s)
  /\ bcast' = <<>>
  /\ last' = [Result("connect", "ok") EXCEPT !.session = s]
  /\ UNCHANGED <<schedVars, loopVars, now, storeVars, mirrorVars, setlistPlayback>>

\* the transport of socket s closes; its 'close' event is not yet dispatched
SocketCloses(s) ==
  /\ UNCHANGED toolVars
  /\ readyState[s] = "OPEN"
  /\ readyState' = [readyState EXCEPT ![s] = "CLOSED"]
  /\ Quiet
  /\ last' = [Result("socket_closes", "ok") EXCEPT !.session = s]
  /\ UNCHANGED <<schedVars, loopVars, now, storeVars, mirrorVars, setlistPlayback,
                 clients>>

\* the 'close' handler of socket s
OnClose(s) ==
  /\ UNCHANGED toolVars
  /\ readyState[s] = "CLOSED"
  /\ clients' = clients \ {s}
  /\ readyState' = [readyState EXCEPT ![s] = "NONE"]
  /\ Quiet
  /\ last' = [Result("close", "ok") EXCEPT !.session = s]
  /\ UNCHANGED <<schedVars, loopVars, now, storeVars, mirrorVars, setlistPlayback>>

\* the 'error' handler of socket s; the socket then closes
OnError(s) ==
  /\ UNCHANGED toolVars
  /\ readyState[s] = "OPEN"
  /\ clients' = clients \ {s}
  /\ readyState' = [readyState EXCEPT ![s] = "CLOSED"]
  /\ Quiet
  /\ last' = [Result("error", "ok") EXCEPT !.session = s]
  /\ UNCHANGED <<schedVars, loopVars, now, storeVars, mirrorVars, setlistPlayback>>

\* setExternalInput with the upper bound of the range test moved by one
SetExternalInputOffByOne(channel, value) ==
  /\ UNCHANGED toolVars
  /\ UNCHANGED <<schedVars, loopVars, now, storeVars, extXY, bpm, audioBindings,
                 currentShaderId, currentShaderCode, currentPalette,
                 setlistPlayback, hubVars>>
  /\ IF channel < 0 \/ channel > 16
     THEN /\ Quiet
          /\ last' = [Result("setExternalInput", "RangeError") EXCEPT !.index = channel]
          /\ UNCHANGED extChannels
     ELSE /\ extChannels' = [extChannels EXCEPT ![channel] = value]
          /\ Broadcast(<<ExtSet(channel, value)>>)
          /\ last' = [Result("setExternalInput", "ok") EXCEPT !.index = channel]

\* setExternalInput
SetExternalInput(channel, value) ==
  /\ UNCHANGED toolVars
  /\ UNCHANGED <<schedVars, loopVars, now, storeVars, extXY, bpm, audioBindings,
                 currentShaderId, currentShaderCode, currentPalette,
                 setlistPlayback, hubVars>>
  /\ IF channel < 0 \/ channel > 15
     THEN /\ Quiet
          /\ last' = [Result("setExternalInput", "RangeError") EXCEPT !.index = channel]
          /\ UNCHANGED extChannels
     ELSE /\ extChannels' = [extChannels EXCEPT ![channel] = value]
          /\ Broadcast(<<ExtSet(channel, value)>>)
          /\ last' = [Result("setExternalInput", "ok") EXCEPT !.index = channel]

\* setExternalXY
SetExternalXY(channel, x, y) ==
  /\ UNCHANGED toolVars
  /\ UNCHANGED <<schedVars, loopVars, now, storeVars, extChannels, bpm,
                 audioBindings, currentShaderId, currentShaderCode, currentPalette,
                 setlistPlayback, hubVars>>
  /\ IF channel < 0 \/ channel > 3
     THEN /\ Quiet
          /\ last' = Result("setExternalXY", "RangeError")
          /\ UNCHANGED extXY
     ELSE /\ extXY' = [extXY EXCEPT ![channel] = [x |-> x, y |-> y]]
          /\ Broadcast(<<ExtXYSet(channel, x, y)>>)
          /\ last' = Result("setExternalXY", "ok")

\* setBpm
SetBpm(value) ==
  /\ UNCHANGED toolVars
  /\ UNCHANGED <<schedVars, loopVars, now, storeVars, extChannels, extXY,
                 audioBindings, currentShaderId, currentShaderCode, currentPalette,
                 setlistPlayback, hubVars>>
  /\ IF value <= 0 \/ value > Bpm(999)
     THEN /\ Quiet
          /\ last' = Result("setBpm", "RangeError")
          /\ UNCHANGED bpm
     ELSE /\ bpm' = value
          /\ Broadcast(<<BpmSet(value)>>)
          /\ last' = Result("setBpm", "ok")

\* ---------------------------------------------------------------- OSC bridge

\* message.args[k] ?? fallback (k is 0-based)
ArgOr(args, k, fallback) == IF Len(args) > k THEN args[k + 1] ELSE fallback

\* the bridge's instance, port and open listeners as one value
OscState == [inst |-> oscInstance, port |-> currentPort, open |-> listeners]

\* a listener id not in use
NewListenerId(open) ==
  CHOOSE id \in 1..(Cardinality(open) + 1) : \A l \in open : l.id # id

\* stopOscBridge: closes the instance's listener, if there is an instance
StopOsc(o) ==
  IF o.inst # 0
  THEN [inst |-> 0, port |-> Null, open |-> {l \in o.open : l.id # o.inst}]
  ELSE o

\* startOscBridge without the stop of the instance that is already running
StartOscNoStop(o, port) ==
  LET id == NewListenerId(o.open)
  IN [inst |-> id, port |-> port, open |-> o.open \cup {[id |-> id, port |-> port]}]

\* startOscBridge: stops a running instance, then opens a listener on the port
StartOsc(o, port) ==
  LET o1 == IF o.inst # 0 THEN StopOsc(o) ELSE o
      id == NewListenerId(o1.open)
  IN [inst |-> id, port |-> port, open |-> o1.open \cup {[id |-> id, port |-> port]}]

\* addOscMapping without the removal of the address's previous entry
AddOscMappingAppend(mappings, address, target) ==
  Append(mappings, [address |-> address, target |-> target])

\* addOscMapping
AddOscMapping(mappings, address, target) ==
  LET Other(m) == m.address # address
  IN Append(SelectSeq(mappings, Other), [address |-> address, target |-> target])

\* getOscMappings, getOscPort
GetOscMappings == customMappings
GetOscPort == currentPort

\* the part of the state the bridge's operations leave alone
restVars == <<schedVars, loopVars, now, storeVars, mirrorVars, setlistPlayback,
              hubVars, activeBindings, validVars, lastRuntimeState>>

\* startOscBridge(broadcastToClients, port), as called at server start
StartOscBridge(port) ==
  LET o == StartOsc(OscState, port)
  IN /\ Cardinality(listeners) < MaxListeners
     /\ oscInstance' = o.inst
     /\ currentPort' = o.port
     /\ listeners' = o.open
     /\ Quiet
     \* "restarted": the warning that a running instance was stopped first
     /\ last' = Result("startOscBridge", IF oscInstance # 0 THEN "restarted" ELSE "ok")
     /\ UNCHANGED <<customMappings, restVars>>

\* stopOscBridge(), as called at server shutdown
StopOscBridge ==
  LET o == StopOsc(OscState)
  IN /\ oscInstance' = o.inst
     /\ currentPort' = o.port
     /\ listeners' = o.open
     /\ Quiet
     /\ last' = Result("stopOscBridge", "ok")
     /\ UNCHANGED <<customMappings, restVars>>

\* the input_osc_config tool; port 0 stands for a port that is absent or
\* falsy, mapping is None or Some(<<address, target>>)
InputOscConfig(port, mapping) ==
  LET o == IF port # 0 THEN StartOsc(StopOsc(OscState), port) ELSE OscState
  IN /\ port # 0 => Cardinality(listeners) < MaxListeners
     /\ customMappings' =
          IF mapping # None
          THEN AddOscMapping(customMappings, mapping[1][1], mapping[1][2])
          ELSE customMappings
     /\ oscInstance' = o.inst
     /\ currentPort' = o.port
     /\ listeners' = o.open
     /\ Quiet
     /\ last' = [Result("input_osc_config", "configured")
                   EXCEPT !.name = IF mapping # None THEN mapping[1][1] ELSE Null]
     /\ UNCHANGED restVars

\* mapping.target.match(/^u_ext\[(\d+)\]$/) and parseInt of the group, for the
\* targets in use
ExtMatch(target) ==
  CASE target = "u_ext[5]" -> Some(5)
    [] target = "u_ext[99]" -> Some(99)
    [] OTHER -> None

\* the wildcard handler's loop over the custom mappings, from the k-th on: an
\* ext target ends the loop, any other target is a parameter name
RECURSIVE CustomMsgs(_, _, _, _)
CustomMsgs(mappings, k, address, value) ==
  IF k > Len(mappings) THEN <<>>
  ELSE IF mappings[k].address # address
  THEN CustomMsgs(mappings, k + 1, address, value)
  ELSE IF ExtMatch(mappings[k].target) # None
  THEN <<ExtSet(ExtMatch(mappings[k].target)[1], value)>>
  ELSE <<ParamSet(mappings[k].target, value)>>
         \o CustomMsgs(mappings, k + 1, address, value)

\* an OSC message for a custom address reaches open listener l: its wildcard
\* handler runs
OscCustom(l, address, args) ==
  /\ l \in listeners
  /\ Broadcast(CustomMsgs(customMappings, 1, address, ArgOr(args, 0, 0)))
  /\ last' = [Result("osc_custom", "ok") EXCEPT !.name = address, !.index = l.id]
  /\ UNCHANGED <<oscVars, restVars>>

\* --------------------------------------------------------- shader validation

\* what a validation step leaves alone
validRest == <<oscVars, activeBindings, schedVars, loopVars, storeVars, mirrorVars,
               setlistPlayback, hubVars, lastRuntimeState>>

\* requestValidation(code), from the shader_validate tool: arms the timeout,
\* registers the callback under a fresh id and broadcasts shader_validate;
\* the tool's handler stays suspended on the promise
RequestValidation(code) ==
  LET id == requested + 1
  IN /\ requested < MaxValidations
     /\ requested' = id
     /\ validationTimers' =
          validationTimers \cup {[id |-> id, due |-> now + ValidationTimeoutMs]}
     /\ validationCallbacks' = validationCallbacks \cup {id}
     /\ Broadcast(<<ShaderValidate(code, id)>>)
     /\ last' = [Result("shader_validate", "awaiting") EXCEPT !.index = id]
     /\ UNCHANGED <<resolutions, now, validRest>>

\* handleValidationResult with the clearTimeout left out
HandleValidationResultNoClear(id, success) ==
  IF id \in validationCallbacks
  THEN [callbacks |-> validationCallbacks \ {id},
        timers |-> validationTimers,
        resolutions |-> [resolutions EXCEPT ![id] = Append(@, [success |-> success])],
        result |-> "resolved"]
  ELSE [callbacks |-> validationCallbacks, timers |-> validationTimers,
        resolutions |-> resolutions, result |-> "ignored"]

\* handleValidationResult: the callbacks, the timers and the resolutions after
\* it
HandleValidationResult(id, success) ==
  IF id \in validationCallbacks
  THEN [callbacks |-> validationCallbacks \ {id},
        timers |-> {t \in validationTimers : t.id # id},
        resolutions |-> [resolutions EXCEPT ![id] = Append(@, [success |-> success])],
        result |-> "resolved"]
  ELSE [callbacks |-> validationCallbacks, timers |-> validationTimers,
        resolutions |-> resolutions, result |-> "ignored"]

\* handleClientMessage for a shader_validated message of connected renderer s
ShaderValidated(s, id, success) ==
  LET h == HandleValidationResult(id, success)
  IN /\ s \in clients
     /\ readyState[s] = "OPEN"
     /\ validationCallbacks' = h.callbacks
     /\ validationTimers' = h.timers
     /\ resolutions' = h.resolutions
     /\ Quiet
     /\ last' = [Result("shader_validated", h.result)
                   EXCEPT !.index = id, !.session = s]
     /\ UNCHANGED <<requested, now, validRest>>

\* a frame a renderer sends: does JSON.parse accept it, its type, and the
\* currentShader of its data ("" when it has none)
ClientFrame(parses, type, currentShader) ==
  [parses |-> parses, type |-> type, currentShader |-> currentShader]
LoggedTypes == {"shader_error", "audio_levels", "capture_complete", "ready"}

\* a 'message' handler that gives up the socket on a frame it does not
\* understand
ClientMessageFatal(s, msg) ==
  /\ s \in clients
  /\ readyState[s] = "OPEN"
  /\ msg.type # "shader_validated"
  /\ Quiet
  /\ UNCHANGED <<activeBindings, oscVars, validVars, schedVars, loopVars, now,
                 storeVars, inputVars, audioBindings, currentShaderCode,
                 currentPalette, setlistPlayback>>
  /\ IF ~msg.parses \/ msg.type \notin LoggedTypes \cup {"state"}
     THEN /\ clients' = clients \ {s}
          /\ readyState' = [readyState EXCEPT ![s] = "CLOSED"]
          /\ UNCHANGED <<lastRuntimeState, currentShaderId>>
          /\ last' = [Result("message", "closed")
                        EXCEPT !.session = s, !.name = msg.type]
     ELSE IF msg.type = "state"
     THEN /\ lastRuntimeState' = msg.currentShader
          /\ currentShaderId' = IF msg.currentShader # "" THEN msg.currentShader
                                ELSE currentShaderId
          /\ UNCHANGED hubVars
          /\ last' = [Result("message", "state")
                        EXCEPT !.session = s, !.name = msg.type]
     ELSE /\ UNCHANGED <<lastRuntimeState, currentShaderId, hubVars>>
          /\ last' = [Result("message", "logged")
                        EXCEPT !.session = s, !.name = msg.type]

\* the 'message' handler of connected renderer s, for every frame but a
\* shader_validated one: JSON.parse inside try/catch, then handleClientMessage.
\* The runtime state a 'state' frame carries is held by its currentShader.
ClientMessage(s, msg) ==
  /\ s \in clients
  /\ readyState[s] = "OPEN"
  /\ msg.type # "shader_validated"
  /\ Quiet
  /\ UNCHANGED <<activeBindings, oscVars, validVars, schedVars, loopVars, now,
                 storeVars, inputVars, audioBindings, currentShaderCode,
                 currentPalette, setlistPlayback, hubVars>>
  /\ IF ~msg.parses
     THEN /\ UNCHANGED <<lastRuntimeState, currentShaderId>>
          /\ last' = [Result("message", "parse_error")
                        EXCEPT !.session = s, !.name = msg.type]
     ELSE IF msg.type = "state"
     THEN /\ lastRuntimeState' = msg.currentShader
          /\ currentShaderId' = IF msg.currentShader # "" THEN msg.currentShader
                                ELSE currentShaderId
          /\ last' = [Result("message", "state")
                        EXCEPT !.session = s, !.name = msg.type]
     ELSE IF msg.type \in LoggedTypes
     THEN /\ UNCHANGED <<lastRuntimeState, currentShaderId>>
          /\ last' = [Result("message", "logged")
                        EXCEPT !.session = s, !.name = msg.type]
     ELSE /\ UNCHANGED <<lastRuntimeState, currentShaderId>>
          /\ last' = [Result("message", "unhandled")
                        EXCEPT !.session = s, !.name = msg.type]

\* the timeout callback of requestValidation
ValidationTimeout(t) ==
  /\ t \in validationTimers
  /\ t.due <= now
  /\ validationTimers' = validationTimers \ {t}
  /\ validationCallbacks' = validationCallbacks \ {t.id}
  /\ resolutions' = [resolutions EXCEPT ![t.id] = Append(@, [success |-> FALSE])]
  /\ Quiet
  /\ last' = [Result("validation_timeout", "resolved") EXCEPT !.index = t.id]
  /\ UNCHANGED <<requested, now, validRest>>

\* time passes until the next validation timeout is due
Elapse ==
  /\ validationTimers # {}
  /\ \A t \in validationTimers : t.due > now
  /\ now' = Min({t.due : t \in validationTimers})
  /\ Quiet
  /\ last' = Result("elapse", "ok")
  /\ UNCHANGED <<validVars, validRest>>

\* ------------------------------------------------------------ perform_palette

\* a string is a sequence of characters; colour components are held in units
\* of 1/255
HexDigits == <<"0", "1", "2", "3", "4", "5", "6", "7", "8", "9",
               "a", "b", "c", "d", "e", "f">>
UpperDigits == <<"0", "1", "2", "3", "4", "5", "6", "7", "8", "9",
                 "A", "B", "C", "D", "E", "F">>
\* the digits of a colour, and the radix of parseInt
HexColorLen == 6
HexRadix == 16

IsHexDigit(c) == \E k \in 1..Len(HexDigits) : c = HexDigits[k] \/ c = UpperDigits[k]

\* parseInt(c, 16) of one hex digit
HexVal(c) == (CHOOSE k \in 1..Len(HexDigits) : c = HexDigits[k] \/ c = UpperDigits[k]) - 1

\* hex.replace(/^#/, '')
Clean(hex) == IF Len(hex) > 0 /\ hex[1] = "#" THEN Tail(hex) ELSE hex

\* /^[0-9a-fA-F]{6}$/.test(clean)
ValidHex(hex) ==
  Len(Clean(hex)) = HexColorLen
    /\ \A k \in 1..Len(Clean(hex)) : IsHexDigit(Clean(hex)[k])

\* the pair of hex digits of clean that starts at k (1-based), as a number
HexPair(clean, k) == HexVal(clean[k]) * HexRadix + HexVal(clean[k + 1])

\* hexToRgb of a string that passes the test
HexToRgb(hex) ==
  LET clean == Clean(hex)
  IN <<HexPair(clean, 1), HexPair(clean, 3), HexPair(clean, 5)>>

\* args.color ? ... : ... -- an absent argument and the empty string are falsy
Truthy(arg) == arg # None /\ arg[1] # <<>>

\* one slot of the merged palette
Slot(arg, current) == IF Truthy(arg) THEN HexToRgb(arg[1]) ELSE current

\* does hexToRgb throw for one of the arguments it is called with
Throws(args) ==
  \E k \in {"color1", "color2", "color3", "bg"} : Truthy(args[k]) /\ ~ValidHex(args[k][1])

\* getCurrentPalette, setCurrentPalette: copies
GetCurrentPalette == currentPalette
SetCurrentPalette(palette) == currentPalette' = palette

\* the perform_palette tool; each argument is None or Some(string)
PerformPalette(args) ==
  LET current == GetCurrentPalette
      colors == [color1 |-> Slot(args.color1, current.color1),
                 color2 |-> Slot(args.color2, current.color2),
                 color3 |-> Slot(args.color3, current.color3),
                 bg |-> Slot(args.bg, current.bg)]
  IN /\ UNCHANGED <<toolVars, schedVars, loopVars, now, storeVars, inputVars,
                    audioBindings, currentShaderId, currentShaderCode,
                    setlistPlayback, hubVars>>
     /\ IF Throws(args)
        THEN /\ Quiet
             /\ last' = Result("perform_palette", "failed")
             /\ UNCHANGED currentPalette
        ELSE /\ Broadcast(<<PaletteSet(colors)>>)
             /\ SetCurrentPalette(colors)
             /\ last' = Result("perform_palette", "palette_updated")

\* getServerState: the snapshot a state read returns
GetServerState ==
  [extChannels |-> extChannels, extXY |-> extXY, bpm |-> bpm,
   audioBindings |-> audioBindings, currentShaderId |-> currentShaderId,
   setlistPlayback |-> setlistPlayback, connectedClients |-> Cardinality(clients)]

\* setAudioBindings: the mirror keeps a copy of the list it is given
SetAudioBindings(bindings) == audioBindings' = bindings

\* the audio_bind tool with the removal of the target's previous binding left out
AudioBindAppend(binding) ==
  /\ activeBindings' = Append(activeBindings, binding)
  /\ SetAudioBindings(activeBindings')
  /\ Broadcast(<<AudioBind(binding)>>)
  /\ last' = [Result("audio_bind", "bound") EXCEPT !.name = binding.target,
                                                     !.index = Len(activeBindings')]
  /\ UNCHANGED <<oscVars, validVars, lastRuntimeState, schedVars, loopVars, now, storeVars, inputVars, currentShaderId,
                 currentShaderCode, currentPalette, setlistPlayback, hubVars>>

\* the audio_bind tool (the arguments have passed the schema)
AudioBindTool(binding) ==
  LET idx == FindIndex({k \in 1..Len(activeBindings) :
                          activeBindings[k].target = binding.target})
      spliced == IF idx >= 0 THEN RemoveAt(activeBindings, idx + 1)
                 ELSE activeBindings
  IN /\ activeBindings' = Append(spliced, binding)
     /\ SetAudioBindings(activeBindings')
     /\ Broadcast(<<AudioBind(binding)>>)
     /\ last' = [Result("audio_bind", "bound") EXCEPT !.name = binding.target,
                                                        !.index = Len(activeBindings')]
     /\ UNCHANGED <<oscVars, validVars, lastRuntimeState, schedVars, loopVars, now, storeVars, inputVars, currentShaderId,
                    currentShaderCode, currentPalette, setlistPlayback, hubVars>>

\* the audio_unbind tool
AudioUnbindTool(target) ==
  LET idx == FindIndex({k \in 1..Len(activeBindings) :
                          activeBindings[k].target = target})
  IN /\ UNCHANGED <<oscVars, validVars, lastRuntimeState, schedVars, loopVars, now, storeVars, inputVars,
                    currentShaderId, currentShaderCode, currentPalette,
                    setlistPlayback, hubVars>>
     /\ IF idx < 0
        THEN /\ Quiet
             /\ last' = [Result("audio_unbind", "no_binding") EXCEPT !.name = target]
             /\ UNCHANGED <<activeBindings, audioBindings>>
        ELSE /\ activeBindings' = RemoveAt(activeBindings, idx + 1)
             /\ SetAudioBindings(activeBindings')
             /\ Broadcast(<<AudioUnbind(target)>>)
             /\ last' = [Result("audio_unbind", "unbound")
                           EXCEPT !.name = target, !.index = Len(activeBindings')]

\* the OSC bridge's handlers for the fixed addresses /shade/ext/<i>,
\* /shade/xy/<i> and /shade/bpm, with broadcastFn = broadcastToClients
OscExt(channel, args) ==
  /\ UNCHANGED toolVars
  /\ Broadcast(<<ExtSet(channel, ArgOr(args, 0, 0))>>)
  /\ last' = Result("osc_ext", "ok")
  /\ UNCHANGED <<schedVars, loopVars, now, storeVars, mirrorVars, setlistPlayback,
                 hubVars>>

OscXY(channel, args) ==
  /\ UNCHANGED toolVars
  /\ Broadcast(<<ExtXYSet(channel, ArgOr(args, 0, 0), ArgOr(args, 1, 0))>>)
  /\ last' = Result("osc_xy", "ok")
  /\ UNCHANGED <<schedVars, loopVars, now, storeVars, mirrorVars, setlistPlayback,
                 hubVars>>

OscBpm(args) ==
  /\ UNCHANGED toolVars
  /\ Broadcast(<<BpmSet(ArgOr(args, 0, Bpm(120)))>>)
  /\ last' = Result("osc_bpm", "ok")
  /\ UNCHANGED <<schedVars, loopVars, now, storeVars, mirrorVars, setlistPlayback,
                 hubVars>>

\* the OSC bridge's handler for /shade/palette/<key>: a palette_set whose
\* other three slots are [0, 0, 0]
PaletteKeys == {"color1", "color2", "color3", "bg"}
OscPalette(key, args) ==
  LET rgb == <<ArgOr(args, 0, 0), ArgOr(args, 1, 0), ArgOr(args, 2, 0)>>
      colors == [[color1 |-> Black, color2 |-> Black, color3 |-> Black, bg |-> Black]
                   EXCEPT ![key] = rgb]
  IN /\ UNCHANGED toolVars
     /\ Broadcast(<<PaletteSet(colors)>>)
     /\ last' = [Result("osc_palette", "ok") EXCEPT !.name = key]
     /\ UNCHANGED <<schedVars, loopVars, now, storeVars, mirrorVars, setlistPlayback,
                    hubVars>>

\* perform_push and perform_crossfade with a preset name
PerformPush(name) ==
  LET preset == PresetFile(name)
  IN /\ UNCHANGED toolVars
     /\ UNCHANGED <<schedVars, loopVars, now, storeVars, inputVars, audioBindings,
                    currentShaderCode, currentPalette, setlistPlayback, hubVars>>
     /\ IF name \notin presets
        THEN /\ Quiet
             /\ last' = Result("perform_push", "not_found")
             /\ UNCHANGED currentShaderId
        ELSE /\ Broadcast(<<ShaderPush(preset.code, preset.id)>>)
             /\ currentShaderId' = preset.id
             /\ last' = Result("perform_push", "pushed")

PerformCrossfade(name, duration) ==
  LET preset == PresetFile(name)
  IN /\ UNCHANGED toolVars
     /\ UNCHANGED <<schedVars, loopVars, now, storeVars, inputVars, audioBindings,
                    currentShaderCode, currentPalette, setlistPlayback, hubVars>>
     /\ IF name \notin presets
        THEN /\ Quiet
             /\ last' = Result("perform_crossfade", "not_found")
             /\ UNCHANGED currentShaderId
        ELSE /\ Broadcast(<<ShaderCrossfade(preset.code, preset.id, duration)>>)
             /\ currentShaderId' = preset.id
             /\ last' = Result("perform_crossfade", "crossfading")

\* ------------------------------------------------------------ specifications

ChannelInputs == {-1, 0, 15, 16}
ValueInputs == {0, 7}
XYChannelInputs == {-1, 3, 4}
BpmInputs == {0, 1, Bpm(140), Bpm(1000)}
ArgsInputs == {<<>>, <<7>>}
\* audio_bind arguments: two targets, each bound from two sources
Binding(source, target, multiplier, offset, smoothing) ==
  [source |-> source, target |-> target, multiplier |-> multiplier,
   offset |-> offset, smoothing |-> smoothing]
BindInputs == {Binding("bass", "u_param1", 1, 0, 0), Binding("mid", "u_param1", 2, 0, 1),
               Binding("mid", "u_param2", 2, 0, 1), Binding("bass", "u_param2", 1, 1, 0)}
TargetInputs == {"u_param1", "u_param2", "u_none"}


Init ==
  /\ activeSetlist = Null
  /\ playbackTimer = 0
  /\ playbackStartedAt = 0
  /\ currentChapterIndex = 0
  /\ isPaused = FALSE
  /\ pauseOffset = 0
  /\ timers = {}
  /\ tasks = <<>>
  /\ flashTimers = {}
  /\ now = Now0
  /\ presets = PresetNames
  /\ setlists = SetlistNames
  /\ extChannels = [i \in 0..(NumExt - 1) |-> 0]
  /\ extXY = [i \in 0..(NumXY - 1) |-> [x |-> 0, y |-> 0]]
  /\ bpm = Bpm(120)
  /\ audioBindings = <<>>
  /\ activeBindings = <<>>
  /\ oscInstance = 0
  /\ currentPort = Null
  /\ customMappings = <<>>
  /\ listeners = {}
  /\ validationCallbacks = {}
  /\ validationTimers = {}
  /\ requested = 0
  /\ resolutions = [id \in 1..MaxValidations |-> <<>>]
  /\ currentShaderId = Null
  /\ currentShaderCode = Null
  /\ currentPalette = DefaultPalette
  /\ setlistPlayback = [active |-> FALSE, setlistName |-> Null, chapterIndex |-> 0,
                        totalChapters |-> 0, startedAt |-> 0]
  /\ clients = {}
  /\ readyState = [s \in Sessions |-> "NONE"]
  /\ lastRuntimeState = Null
  /\ sent = [s \in Sessions |-> <<>>]
  /\ bcast = <<>>
  /\ last = Result("init", "ok")
  /\ wire = [ext |-> [i \in 0..(NumExt - 1) |-> 0], bpm |-> Bpm(120), shader |-> None,
             palette |-> DefaultPalette]
  /\ running = FALSE
  /\ chapterClock = 0
  /\ emitted = <<>>
  /\ stream = <<>>

\* history: what the renderers connected all along have been told
WireHistory == wire' = WireAfter(wire, bcast')

\* history: the chapter clock runs from play() (or an unpaused jump) to
\* pause(), load or delete, and restarts at 0 with every new current chapter
ClockHistory ==
  /\ running' =
       CASE last'.op = "play" /\ last'.result \in {"awaiting", "throws"} -> TRUE
         [] last'.op = "pause" /\ last'.result = "paused" -> FALSE
         [] last'.op = "load" /\ last'.result = "loaded" -> FALSE
         [] last'.op = "delete" /\ activeSetlist' # activeSetlist -> FALSE
         [] last'.op = "jump" /\ last'.result = "awaiting" -> ~isPaused
         [] OTHER -> running
  /\ chapterClock' =
       CASE last'.op = "tick" ->
              IF running THEN chapterClock + TickMs ELSE chapterClock
         [] last'.op = "timer" /\ last'.result \in {"awaiting", "throws"} -> 0
         [] last'.op = "jump" /\ last'.result = "awaiting" -> 0
         [] last'.op = "load" /\ last'.result = "loaded" -> 0
         [] OTHER -> chapterClock

\* the setlist playback engine and its store
Next ==
  \/ \E name \in {"A", "B", "C"} : SetlistLoad(name) /\ UNCHANGED histVars
  \/ SetlistPlay /\ UNCHANGED histVars
  \/ SetlistPause /\ UNCHANGED histVars
  \/ \E args \in JumpInputs : SetlistJump(args) /\ UNCHANGED histVars
  \/ \E name \in {"B"} : SetlistDelete(name) /\ UNCHANGED histVars
  \/ \E t \in timers : TimerFire(t) /\ UNCHANGED histVars
  \/ \E i \in 1..Len(tasks) : Resume(i) /\ UNCHANGED histVars
  \/ Tick /\ UNCHANGED histVars

Spec == Init /\ [][Next]_vars

\* one playback of setlist "A" with the chapter clock observed.  The setlist
\* is loaded once, the operator issues one tool call at a time (a call is
\* made when no handler is suspended), and calls play only to start or to
\* resume from a pause.
NextClock ==
  \/ activeSetlist = Null /\ SetlistLoad("A") /\ ClockHistory /\ UNCHANGED <<wire, emitted, stream>>
  \/ tasks = <<>> /\ ~running /\ SetlistPlay /\ ClockHistory /\ UNCHANGED <<wire, emitted, stream>>
  \/ tasks = <<>> /\ SetlistPause /\ ClockHistory /\ UNCHANGED <<wire, emitted, stream>>
  \/ tasks = <<>> /\ SetlistJump(JumpArgs(Some(1), None, None))
       /\ ClockHistory /\ UNCHANGED <<wire, emitted, stream>>
  \/ \E t \in timers : TimerFire(t) /\ ClockHistory /\ UNCHANGED <<wire, emitted, stream>>
  \/ \E i \in 1..Len(tasks) : Resume(i) /\ ClockHistory /\ UNCHANGED <<wire, emitted, stream>>
  \/ Tick /\ ClockHistory /\ UNCHANGED <<wire, emitted, stream>>

SpecClock == Init /\ [][NextClock]_vars

\* playback in front of renderers that connect, with what the renderers
\* have been told observed
NextShow ==
  \/ \E name \in {"A", "B"} : SetlistLoad(name) /\ WireHistory /\ UNCHANGED <<running, chapterClock, emitted, stream>>
  \/ SetlistPlay /\ WireHistory /\ UNCHANGED <<running, chapterClock, emitted, stream>>
  \/ \E t \in timers : TimerFire(t) /\ WireHistory /\ UNCHANGED <<running, chapterClock, emitted, stream>>
  \/ \E i \in 1..Len(tasks) : Resume(i) /\ WireHistory /\ UNCHANGED <<running, chapterClock, emitted, stream>>
  \/ Tick /\ WireHistory /\ UNCHANGED <<running, chapterClock, emitted, stream>>
  \/ \E s \in Sessions : Connect(s) /\ WireHistory /\ UNCHANGED <<running, chapterClock, emitted, stream>>
  \/ \E s \in Sessions : SocketCloses(s) /\ WireHistory /\ UNCHANGED <<running, chapterClock, emitted, stream>>
  \/ \E s \in Sessions : OnClose(s) /\ WireHistory /\ UNCHANGED <<running, chapterClock, emitted, stream>>

SpecShow == Init /\ [][NextShow]_vars

\* the mirror, the inputs, the perform tools and the renderer sessions
NextHub ==
  \/ \E c \in ChannelInputs, v \in ValueInputs :
       SetExternalInput(c, v) /\ WireHistory /\ UNCHANGED <<running, chapterClock, emitted, stream>>
  \/ \E c \in XYChannelInputs, v \in ValueInputs :
       SetExternalXY(c, v, 0) /\ WireHistory /\ UNCHANGED <<running, chapterClock, emitted, stream>>
  \/ \E b \in BpmInputs : SetBpm(b) /\ WireHistory /\ UNCHANGED <<running, chapterClock, emitted, stream>>
  \/ \E a \in ArgsInputs : OscExt(3, a) /\ WireHistory /\ UNCHANGED <<running, chapterClock, emitted, stream>>
  \/ \E a \in ArgsInputs : OscXY(0, a) /\ WireHistory /\ UNCHANGED <<running, chapterClock, emitted, stream>>
  \/ \E a \in ArgsInputs : OscBpm(a) /\ WireHistory /\ UNCHANGED <<running, chapterClock, emitted, stream>>
  \/ \E name \in {"p1", "nope"} :
       PerformPush(name) /\ WireHistory /\ UNCHANGED <<running, chapterClock, emitted, stream>>
  \/ PerformCrossfade("p2", 2) /\ WireHistory /\ UNCHANGED <<running, chapterClock, emitted, stream>>
  \/ \E s \in Sessions : Connect(s) /\ WireHistory /\ UNCHANGED <<running, chapterClock, emitted, stream>>
  \/ \E s \in Sessions : SocketCloses(s) /\ WireHistory /\ UNCHANGED <<running, chapterClock, emitted, stream>>
  \/ \E s \in Sessions : OnClose(s) /\ WireHistory /\ UNCHANGED <<running, chapterClock, emitted, stream>>
  \/ \E s \in Sessions : OnError(s) /\ WireHistory /\ UNCHANGED <<running, chapterClock, emitted, stream>>

SpecHub == Init /\ [][NextHub]_vars

\* every way to call setlist_jump: by index (in and out of range), by name,
\* by time (inside a chapter and past the end), and with no selector
JumpInputsAll ==
  JumpInputs
  \cup {JumpArgs(Some(-1), None, None), JumpArgs(None, None, Some(1)),
        JumpArgs(None, None, Some(9)), JumpArgs(None, None, None)}

\* the setlist tools called one at a time: a call is made when no handler is
\* suspended
NextCalls ==
  \/ tasks = <<>> /\ \E name \in {"A", "B"} : SetlistLoad(name) /\ UNCHANGED histVars
  \/ tasks = <<>> /\ SetlistPlay /\ UNCHANGED histVars
  \/ tasks = <<>> /\ SetlistPause /\ UNCHANGED histVars
  \/ tasks = <<>> /\ \E args \in JumpInputsAll : SetlistJump(args) /\ UNCHANGED histVars
  \/ tasks = <<>> /\ SetlistDelete("B") /\ UNCHANGED histVars
  \/ \E t \in timers : TimerFire(t) /\ UNCHANGED histVars
  \/ \E i \in 1..Len(tasks) : Resume(i) /\ UNCHANGED histVars
  \/ Tick /\ UNCHANGED histVars

SpecCalls == Init /\ [][NextCalls]_vars

\* history: a chapter is emitted when its composite command is broadcast; the
\* record starts again at every load
EmitHistory ==
  emitted' =
    CASE last'.op = "load" /\ last'.result = "loaded" -> <<>>
      [] last'.op \in {"play", "timer", "jump"} /\ last'.result = "pushed" ->
           Append(emitted, last'.index)
      [] OTHER -> emitted

\* uninterrupted playback of setlist "B" or "D": one load, one play, and then
\* only the timers, the suspended handlers and the clock, which is read while
\* a timer is armed; renderers connect and disconnect meanwhile
NextRun ==
  \/ /\ activeSetlist = Null
     /\ \E name \in {"B", "D"} : SetlistLoad(name)
     /\ EmitHistory /\ UNCHANGED <<wire, running, chapterClock, stream>>
  \/ /\ tasks = <<>> /\ activeSetlist # Null /\ setlistPlayback.startedAt = 0
     /\ SetlistPlay /\ EmitHistory /\ UNCHANGED <<wire, running, chapterClock, stream>>
  \/ \E t \in timers :
       TimerFire(t) /\ EmitHistory /\ UNCHANGED <<wire, running, chapterClock, stream>>
  \/ \E i \in 1..Len(tasks) :
       Resume(i) /\ EmitHistory /\ UNCHANGED <<wire, running, chapterClock, stream>>
  \/ timers # {} /\ Tick /\ EmitHistory /\ UNCHANGED <<wire, running, chapterClock, stream>>
  \/ \E s \in Sessions :
       Connect(s) /\ EmitHistory /\ UNCHANGED <<wire, running, chapterClock, stream>>
  \/ \E s \in Sessions :
       SocketCloses(s) /\ EmitHistory /\ UNCHANGED <<wire, running, chapterClock, stream>>
  \/ \E s \in Sessions :
       OnClose(s) /\ EmitHistory /\ UNCHANGED <<wire, running, chapterClock, stream>>

\* the event loop runs every due timer callback and every continuation whose
\* awaited read has settled, and the wall clock advances
FairRun ==
  /\ WF_vars(\E t \in timers : TimerFire(t) /\ EmitHistory
                /\ UNCHANGED <<wire, running, chapterClock, stream>>)
  /\ WF_vars(\E i \in 1..Len(tasks) : Resume(i) /\ EmitHistory
                /\ UNCHANGED <<wire, running, chapterClock, stream>>)
  /\ WF_vars(timers # {} /\ Tick /\ EmitHistory
                /\ UNCHANGED <<wire, running, chapterClock, stream>>)

SpecRun == Init /\ [][NextRun]_vars /\ FairRun

\* one playback of setlist "A" while preset files are deleted
NextStore ==
  \/ activeSetlist = Null /\ SetlistLoad("A") /\ WireHistory
       /\ UNCHANGED <<running, chapterClock, emitted, stream>>
  \/ tasks = <<>> /\ SetlistPlay /\ WireHistory /\ UNCHANGED <<running, chapterClock, emitted, stream>>
  \/ tasks = <<>> /\ SetlistPause /\ WireHistory /\ UNCHANGED <<running, chapterClock, emitted, stream>>
  \/ \E name \in {"p1", "p2"} :
       PresetDelete(name) /\ WireHistory /\ UNCHANGED <<running, chapterClock, emitted, stream>>
  \/ \E t \in timers : TimerFire(t) /\ WireHistory /\ UNCHANGED <<running, chapterClock, emitted, stream>>
  \/ \E i \in 1..Len(tasks) : Resume(i) /\ WireHistory /\ UNCHANGED <<running, chapterClock, emitted, stream>>
  \/ Tick /\ WireHistory /\ UNCHANGED <<running, chapterClock, emitted, stream>>
  \/ \E s \in Sessions : Connect(s) /\ WireHistory /\ UNCHANGED <<running, chapterClock, emitted, stream>>

SpecStore == Init /\ [][NextStore]_vars

\* the audio binding tools with renderers connecting and leaving
NextBind ==
  \/ \E b \in BindInputs : AudioBindTool(b) /\ UNCHANGED histVars
  \/ \E t \in TargetInputs : AudioUnbindTool(t) /\ UNCHANGED histVars
  \/ \E s \in Sessions : Connect(s) /\ UNCHANGED histVars
  \/ \E s \in Sessions : SocketCloses(s) /\ UNCHANGED histVars
  \/ \E s \in Sessions : OnClose(s) /\ UNCHANGED histVars

SpecBind == Init /\ [][NextBind]_vars

\* every tool that broadcasts, in a house that is empty most of the time: one
\* renderer connects and leaves; one playback of setlist "B"
NextEmptyHouse ==
  \/ SetExternalInput(0, 7) /\ UNCHANGED histVars
  \/ SetExternalXY(3, 7, 0) /\ UNCHANGED histVars
  \/ SetBpm(Bpm(140)) /\ UNCHANGED histVars
  \/ PerformPush("p1") /\ UNCHANGED histVars
  \/ PerformCrossfade("p2", 2) /\ UNCHANGED histVars
  \/ AudioBindTool(Binding("bass", "u_param1", 1, 0, 0)) /\ UNCHANGED histVars
  \/ AudioUnbindTool("u_param1") /\ UNCHANGED histVars
  \/ activeSetlist = Null /\ SetlistLoad("B") /\ UNCHANGED histVars
  \/ tasks = <<>> /\ setlistPlayback.startedAt = 0 /\ SetlistPlay /\ UNCHANGED histVars
  \/ \E t \in timers : TimerFire(t) /\ UNCHANGED histVars
  \/ \E i \in 1..Len(tasks) : Resume(i) /\ UNCHANGED histVars
  \/ timers # {} /\ Tick /\ UNCHANGED histVars
  \/ Connect("r1") /\ UNCHANGED histVars
  \/ SocketCloses("r1") /\ UNCHANGED histVars
  \/ OnClose("r1") /\ UNCHANGED histVars

SpecEmptyHouse == Init /\ [][NextEmptyHouse]_vars

\* the OSC bridge: started, stopped and reconfigured in any order, with
\* messages for custom addresses arriving at the open listeners
PortInputs == {0, 9000, 9001}
MappingInputs ==
  {None} \cup {Some(<<a, t>>) : a \in {"/fader", "/knob"}, t \in {"u_ext[5]", "u_ext[99]", "u_param1"}}

NextOsc ==
  \/ \E p \in PortInputs \ {0} : StartOscBridge(p) /\ UNCHANGED histVars
  \/ StopOscBridge /\ UNCHANGED histVars
  \/ \E p \in PortInputs, m \in MappingInputs :
       InputOscConfig(p, m) /\ UNCHANGED histVars
  \/ \E l \in listeners, a \in ArgsInputs :
       OscCustom(l, "/fader", a) /\ UNCHANGED histVars
  \/ Connect("r1") /\ UNCHANGED histVars

SpecOsc == Init /\ [][NextOsc]_vars

\* shader validation: requests, answers of the renderers for any id, known or
\* not, and timeouts
ValidationIds == 0..MaxValidations

NextValidate ==
  \/ RequestValidation("void main(){}") /\ UNCHANGED histVars
  \/ \E s \in Sessions, id \in ValidationIds, ok \in BOOLEAN :
       ShaderValidated(s, id, ok) /\ UNCHANGED histVars
  \/ \E t \in validationTimers : ValidationTimeout(t) /\ UNCHANGED histVars
  \/ Elapse /\ UNCHANGED histVars
  \/ \E s \in Sessions : Connect(s) /\ UNCHANGED histVars
  \/ \E s \in Sessions : SocketCloses(s) /\ UNCHANGED histVars
  \/ \E s \in Sessions : OnClose(s) /\ UNCHANGED histVars

\* the event loop runs every due timeout callback, and time passes
FairValidate ==
  /\ WF_vars(\E t \in validationTimers : ValidationTimeout(t) /\ UNCHANGED histVars)
  /\ WF_vars(Elapse /\ UNCHANGED histVars)

SpecValidate == Init /\ [][NextValidate]_vars /\ FairValidate

\* perform_palette with renderers connecting and leaving
Str(chars) == Some(chars)
Color1Inputs == {None, Str(<<"#", "F", "F", "0", "0", "0", "0">>),
                 Str(<<"#", "F", "0", "0">>), Str(<<>>)}
Color2Inputs == {None, Str(<<"0", "0", "0", "0", "f", "f">>)}
BgInputs == {None, Str(<<"#", "8", "0", "F", "F", "0", "g">>),
             Str(<<"#", "8", "0", "F", "F", "0", "0">>)}
PaletteInputs ==
  {[color1 |-> c1, color2 |-> c2, color3 |-> None, bg |-> b] :
     c1 \in Color1Inputs, c2 \in Color2Inputs, b \in BgInputs}

NextPalette ==
  \/ \E a \in PaletteInputs : PerformPalette(a) /\ UNCHANGED histVars
  \/ \E s \in Sessions : Connect(s) /\ UNCHANGED histVars
  \/ \E s \in Sessions : SocketCloses(s) /\ UNCHANGED histVars
  \/ \E s \in Sessions : OnClose(s) /\ UNCHANGED histVars

SpecPalette == Init /\ [][NextPalette]_vars

\* one playback of setlist "A" that is paused at any moment, also while a
\* handler is suspended; play is called only while nothing is scheduled
NextPause ==
  \/ activeSetlist = Null /\ SetlistLoad("A") /\ UNCHANGED histVars
  \/ tasks = <<>> /\ timers = {} /\ SetlistPlay /\ UNCHANGED histVars
  \/ SetlistPause /\ UNCHANGED histVars
  \/ \E t \in timers : TimerFire(t) /\ UNCHANGED histVars
  \/ \E i \in 1..Len(tasks) : Resume(i) /\ UNCHANGED histVars
  \/ Tick /\ UNCHANGED histVars

SpecPause == Init /\ [][NextPause]_vars

\* one playback of setlist "F", whose first chapter comes in with a flash,
\* with jumps; calls are made one at a time and play is called once
NextFlash ==
  \/ /\ activeSetlist = Null /\ SetlistLoad("F")
     /\ WireHistory /\ EmitHistory /\ UNCHANGED <<running, chapterClock, stream>>
  \/ /\ tasks = <<>> /\ setlistPlayback.startedAt = 0 /\ SetlistPlay
     /\ WireHistory /\ EmitHistory /\ UNCHANGED <<running, chapterClock, stream>>
  \/ /\ tasks = <<>> /\ Len(emitted) < MaxEmitted
     /\ \E i \in {0, 1} : SetlistJump(JumpArgs(Some(i), None, None))
     /\ WireHistory /\ EmitHistory /\ UNCHANGED <<running, chapterClock, stream>>
  \/ \E t \in timers :
       TimerFire(t) /\ WireHistory /\ EmitHistory /\ UNCHANGED <<running, chapterClock, stream>>
  \/ \E i \in 1..Len(tasks) :
       Resume(i) /\ WireHistory /\ EmitHistory /\ UNCHANGED <<running, chapterClock, stream>>
  \/ \E f \in flashTimers :
       FlashFire(f) /\ WireHistory /\ EmitHistory /\ UNCHANGED <<running, chapterClock, stream>>
  \/ Tick /\ WireHistory /\ EmitHistory /\ UNCHANGED <<running, chapterClock, stream>>

SpecFlash == Init /\ [][NextFlash]_vars

\* setlist_jump called with every combination of selectors on a loaded
\* setlist, one call at a time, with pause and play in between
JumpIndexInputs == {None, Some(-1), Some(1), Some(3)}
JumpNameInputs == {None, Some(""), Some("LOOP"), Some("DROP")}
JumpTimeInputs == {None, Some(1), Some(3)}
JumpInputsWide ==
  {JumpArgs(i, n, t) : i \in JumpIndexInputs, n \in JumpNameInputs, t \in JumpTimeInputs}

NextJump ==
  \/ activeSetlist = Null /\ \E name \in {"A", "G"} : SetlistLoad(name) /\ UNCHANGED histVars
  \/ tasks = <<>> /\ timers = {} /\ SetlistPlay /\ UNCHANGED histVars
  \/ tasks = <<>> /\ SetlistPause /\ UNCHANGED histVars
  \/ tasks = <<>> /\ \E args \in JumpInputsWide : SetlistJump(args) /\ UNCHANGED histVars
  \/ \E t \in timers : TimerFire(t) /\ UNCHANGED histVars
  \/ \E i \in 1..Len(tasks) : Resume(i) /\ UNCHANGED histVars
  \/ Tick /\ UNCHANGED histVars

SpecJump == Init /\ [][NextJump]_vars

\* the frames of the renderers: of every kind, known or not, parsable or not,
\* with validation results for any id, while a setlist plays
FrameInputs ==
  {ClientFrame(FALSE, "", ""), ClientFrame(TRUE, "bogus", ""),
   ClientFrame(TRUE, "ready", ""), ClientFrame(TRUE, "state", ""),
   ClientFrame(TRUE, "state", "p2")}

NextInbound ==
  \/ RequestValidation("void main(){}") /\ UNCHANGED histVars
  \/ \E s \in Sessions, id \in ValidationIds, ok \in BOOLEAN :
       ShaderValidated(s, id, ok) /\ UNCHANGED histVars
  \/ \E s \in Sessions, msg \in FrameInputs : ClientMessage(s, msg) /\ UNCHANGED histVars
  \/ \E s \in Sessions : Connect(s) /\ UNCHANGED histVars
  \/ \E s \in Sessions : SocketCloses(s) /\ UNCHANGED histVars
  \/ \E s \in Sessions : OnClose(s) /\ UNCHANGED histVars
  \/ activeSetlist = Null /\ SetlistLoad("B") /\ UNCHANGED histVars
  \/ tasks = <<>> /\ timers = {} /\ setlistPlayback.startedAt = 0
       /\ SetlistPlay /\ UNCHANGED histVars
  \/ \E i \in 1..Len(tasks) : Resume(i) /\ UNCHANGED histVars

SpecInbound == Init /\ [][NextInbound]_vars

\* palettes set by perform_palette and by OSC messages, in any order, with
\* what the renderers have been told observed
OscColorInputs == {<<>>, <<255, 0, 0>>, <<0, 128>>}

NextOscPalette ==
  \/ \E a \in PaletteInputs : PerformPalette(a) /\ WireHistory /\ UNCHANGED <<running, chapterClock, emitted, stream>>
  \/ \E key \in PaletteKeys, args \in OscColorInputs :
       OscPalette(key, args) /\ WireHistory /\ UNCHANGED <<running, chapterClock, emitted, stream>>
  \/ \E s \in Sessions : Connect(s) /\ WireHistory /\ UNCHANGED <<running, chapterClock, emitted, stream>>
  \/ \E s \in Sessions : OnError(s) /\ WireHistory /\ UNCHANGED <<running, chapterClock, emitted, stream>>

SpecOscPalette == Init /\ [][NextOscPalette]_vars

\* setlists loaded one after the other and played, with pauses at any moment
\* between the calls; calls are made one at a time
NextReload ==
  \/ /\ tasks = <<>>
     /\ \E name \in {"A", "B"} : SetlistLoad(name)
     /\ EmitHistory /\ UNCHANGED <<wire, running, chapterClock, stream>>
  \/ /\ tasks = <<>> /\ timers = {} /\ Len(emitted) < MaxEmitted /\ SetlistPlay
     /\ EmitHistory /\ UNCHANGED <<wire, running, chapterClock, stream>>
  \/ /\ tasks = <<>> /\ SetlistPause
     /\ EmitHistory /\ UNCHANGED <<wire, running, chapterClock, stream>>
  \/ \E t \in timers :
       TimerFire(t) /\ EmitHistory /\ UNCHANGED <<wire, running, chapterClock, stream>>
  \/ \E i \in 1..Len(tasks) :
       Resume(i) /\ EmitHistory /\ UNCHANGED <<wire, running, chapterClock, stream>>
  \/ Tick /\ EmitHistory /\ UNCHANGED <<wire, running, chapterClock, stream>>

SpecReload == Init /\ [][NextReload]_vars

\* history: the broadcast stream, the concatenation of what the handlers hand
\* to broadcastToClients
StreamHistory == stream' = stream \o bcast'

\* one playback of setlist "A" or "F" with jumps and an ext channel set at any
\* moment, also while handlers are suspended, and the broadcast stream observed
NextStream ==
  \/ /\ activeSetlist = Null /\ \E name \in {"A", "F"} : SetlistLoad(name)
     /\ StreamHistory /\ EmitHistory /\ UNCHANGED <<wire, running, chapterClock>>
  \/ /\ setlistPlayback.startedAt = 0 /\ SetlistPlay
     /\ StreamHistory /\ EmitHistory /\ UNCHANGED <<wire, running, chapterClock>>
  \/ /\ Len(emitted) + Len(tasks) < MaxEmitted
     /\ \E i \in {0, 1} : SetlistJump(JumpArgs(Some(i), None, None))
     /\ StreamHistory /\ EmitHistory /\ UNCHANGED <<wire, running, chapterClock>>
  \/ \E t \in timers :
       TimerFire(t) /\ StreamHistory /\ EmitHistory /\ UNCHANGED <<wire, running, chapterClock>>
  \/ \E i \in 1..Len(tasks) :
       Resume(i) /\ StreamHistory /\ EmitHistory /\ UNCHANGED <<wire, running, chapterClock>>
  \/ \E f \in flashTimers :
       FlashFire(f) /\ StreamHistory /\ EmitHistory /\ UNCHANGED <<wire, running, chapterClock>>
  \/ /\ Len(stream) < MaxStream /\ SetExternalInput(0, 7)
     /\ StreamHistory /\ EmitHistory /\ UNCHANGED <<wire, running, chapterClock>>
  \/ Tick /\ StreamHistory /\ EmitHistory /\ UNCHANGED <<wire, running, chapterClock>>

SpecStream == Init /\ [][NextStream]_vars

\* ------------------------------------------------------------------ claims

\* the duration, in milliseconds, of the current chapter of the active setlist
CurrentChapterMs ==
  LET c == Chapters(activeSetlist)[currentChapterIndex + 1]
  IN (c.end_time - c.start_time) * MsPerSecond

\* C1: in every reachable state, after any sequence of load, play, pause,
\* jump, delete calls and timer firings (play while already playing
\* included), at most one chapter-advance timer is outstanding.
C1_AtMostOneTimer == Cardinality(timers) <= 1

\* C2: no chapter-advance timer is pending whenever the scheduler is paused,
\* has no setlist loaded, or has a setlist on which play has not been called
\* since it was loaded (the playback record's startedAt is null from the load
\* until play sets it).
C2_NoTimerWhenIdle ==
  (isPaused \/ activeSetlist = Null \/ setlistPlayback.startedAt = 0)
    => timers = {}

\* C3: paused time never counts toward chapter time: the timer armed by a
\* play that resumes from a pause is the current chapter's full duration
\* minus the unpaused time already spent in that chapter, floored at 0, for
\* chapter 0 and for the chapters reached by a timer-driven advance alike.
C3_ResumeArmsRemaining ==
  (last.op = "play" /\ last.result = "pushed" /\ last.resumed /\ last.armed >= 0)
    => last.armed = Max(0, CurrentChapterMs - chapterClock)

\* C4: a successful jump cancels the pending advance: no advance armed before
\* the jump (a timer that outlives it, or a timer callback suspended at its
\* preset lookup) changes currentChapterIndex or emits commands after it.
C4_NoStaleAdvance == ~(last.op = "timer" /\ last.stale)

\* the positions of the messages of a kind in a message sequence
Positions(msgs, type) == {k \in 1..Len(msgs) : msgs[k].type = type}

\* the message is one of the sequence
Carries(msgs, m) == \E k \in 1..Len(msgs) : msgs[k] = m

\* C5: a connection event sends the sync sequence exactly once, to the
\* connecting socket only; the sockets already connected are sent nothing,
\* and the new socket is in the client set, as is every open socket.
C5_SyncOnceToJoiner ==
  /\ last.op = "connect" =>
       /\ sent[last.session] = SyncSequence
       /\ \A r \in Sessions \ {last.session} : sent[r] = <<>>
       /\ bcast = <<>>
       /\ last.session \in clients
  /\ \A s \in Sessions : readyState[s] = "OPEN" => s \in clients

\* C5 happens: a socket connects while another one is open and the mirror
\* holds more than its defaults
C5_Witness ==
  /\ last.op = "connect"
  /\ \E r \in clients \ {last.session} : readyState[r] = "OPEN"
  /\ Len(sent[last.session]) > 3

\* C6: the sync sequence sent on connect has an ext_set(i, v) for exactly the
\* channels i in 0..15 whose mirrored value v is not 0, with that value, one
\* for each, none for a channel at 0, and exactly one bpm_set, with the
\* mirrored bpm.
C6_SyncCarriesInputs ==
  last.op = "connect" =>
    LET sync == sent[last.session]
        exts == Positions(sync, "ext_set")
        bpms == Positions(sync, "bpm_set")
    IN /\ \A i \in 0..15 :
            extChannels[i] # 0 => Carries(sync, ExtSet(i, extChannels[i]))
       /\ \A k \in exts :
            /\ sync[k].channel \in 0..15
            /\ extChannels[sync[k].channel] # 0
            /\ sync[k].value = extChannels[sync[k].channel]
       /\ \A j, k \in exts : sync[j].channel = sync[k].channel => j = k
       /\ Cardinality(bpms) = 1
       /\ \A k \in bpms : sync[k].bpm = bpm

\* C6 happens: a socket connects when channel 15 is set, channel 0 is at its
\* default, and the bpm is not the initial one
C6_Witness ==
  /\ last.op = "connect"
  /\ extChannels[15] = 7
  /\ extChannels[0] = 0
  /\ bpm = Bpm(140)

\* C7: a socket that connects after a shader has been pushed is sent, within
\* its sync sequence, a shader_push with that shader's id and code.
C7_SyncCarriesShader ==
  (last.op = "connect" /\ wire.shader # None) =>
    Carries(sent[last.session], ShaderPush(wire.shader[1].code, wire.shader[1].id))

\* C8: OSC input writes through the mirror: a socket that connects after
\* /shade/ext/<i> v or /shade/bpm b is sent ext_set(i, v), and the bpm_set of
\* its sync sequence carries b: the values the open renderers were told last.
C8_OscReachesSync ==
  last.op = "connect" =>
    /\ \A i \in 0..15 :
         wire.ext[i] # 0 => Carries(sent[last.session], ExtSet(i, wire.ext[i]))
    /\ Carries(sent[last.session], BpmSet(wire.bpm))

\* C9: the setlist engine writes through the mirror: a socket that connects
\* after a chapter with a palette has been emitted is sent that palette, the
\* one the open renderers were told last, in its sync sequence.
C9_ChapterPaletteReachesSync ==
  last.op = "connect" => Carries(sent[last.session], PaletteSet(wire.palette))

\* C10: a load of a setlist with a shader name that does not resolve fails,
\* reports every unresolved name, and leaves the active setlist (null
\* included), the chapter index, the paused flag, the pause offset, the
\* timer handle, the armed timers and the playback record as they were.
C10_FailedLoadChangesNothing ==
  [][(last'.op = "load" /\ last'.result = "missing") =>
       /\ UNCHANGED <<schedVars, timers, setlistPlayback>>
       /\ Len(last'.missing) > 0
       /\ \A sh \in PresetNames \cup GhostNames :
            Len(SelectSeq(last'.missing, LAMBDA x : x = sh))
              = Cardinality({k \in 1..Len(SetlistFile(last'.name)) :
                               /\ SetlistFile(last'.name)[k].shader = sh
                               /\ sh \notin presets})]_vars

\* C10 happens: a load fails on two unresolved names while setlist "A" is
\* playing with a timer armed and a pause offset accumulated
C10_Witness ==
  /\ last.op = "load"
  /\ last.result = "missing"
  /\ Len(last.missing) = 2
  /\ activeSetlist = "A"
  /\ timers # {}
  /\ pauseOffset > 0

\* C11: after a successful load, from whatever state, the active setlist is
\* the loaded one, currentChapterIndex is 0, the paused flag and the pause
\* offset are cleared, and no chapter-advance timer is pending.
C11_LoadResets ==
  (last.op = "load" /\ last.result = "loaded") =>
    /\ activeSetlist = last.name
    /\ currentChapterIndex = 0
    /\ ~isPaused
    /\ pauseOffset = 0
    /\ timers = {}

\* no socket was sent anything and nothing was handed to broadcastToClients
NothingSent == bcast = <<>> /\ \A s \in Sessions : sent[s] = <<>>

\* C12: play, pause and jump called while no setlist is loaded return the
\* no-setlist error, change no scheduler, timer or mirror state and broadcast
\* nothing.
C12_NoSetlistCallsChangeNothing ==
  [][/\ (/\ activeSetlist = Null
         /\ last'.op \in {"play", "pause", "jump"}
         /\ last'.result \notin {"pushed", "preset_missing"})
          => last'.result = "no_setlist"
     /\ (last'.op \in {"play", "pause", "jump"} /\ last'.result = "no_setlist")
          => /\ UNCHANGED <<schedVars, loopVars, mirrorVars, setlistPlayback>>
             /\ NothingSent']_vars

\* C12 happens: play is refused after the setlist that was playing has been
\* deleted
C12_Witness ==
  /\ last.op = "play"
  /\ last.result = "no_setlist"
  /\ activeSetlist = Null
  /\ playbackStartedAt # 0

\* the error results of setlist_jump's target resolution
JumpErrors == {"out_of_range", "name_not_found", "time_not_found", "no_selector"}

\* C13: a jump whose target does not resolve fails and leaves the chapter
\* index, the pause offset, the timers and the rest of the scheduler state
\* unchanged and broadcasts nothing; a jump that is accepted targets a
\* chapter of the setlist.
C13_FailedJumpChangesNothing ==
  [][/\ (last'.op = "jump" /\ last'.result \in JumpErrors)
          => /\ UNCHANGED <<schedVars, loopVars, setlistPlayback>>
             /\ NothingSent'
     /\ (last'.op = "jump" /\ last'.result = "awaiting")
          => currentChapterIndex' \in 0..(Len(Chapters(activeSetlist)) - 1)]_vars

\* C13 happens: a jump by time past the end is refused while chapter 1 plays
\* with its timer armed
C13_Witness ==
  /\ last.op = "jump"
  /\ last.result = "time_not_found"
  /\ currentChapterIndex = 1
  /\ timers # {}

\* C14: pause called while already paused returns "already paused" and
\* changes nothing: the pause offset is not increased again and no timer is
\* touched.
C14_PauseIdempotent ==
  [][/\ (isPaused /\ activeSetlist # Null /\ last'.op = "pause")
          => last'.result = "already_paused"
     /\ (last'.op = "pause" /\ last'.result = "already_paused")
          => /\ UNCHANGED <<schedVars, loopVars, mirrorVars, setlistPlayback>>
             /\ NothingSent']_vars

\* C14 happens: a second pause, later than the first, with time spent playing
C14_Witness ==
  /\ last.op = "pause"
  /\ last.result = "already_paused"
  /\ pauseOffset > 0
  /\ now > playbackStartedAt + pauseOffset

\* C15: a chapter emission with a cut or crossfade transition broadcasts, in
\* this order and nothing else: the shader command, one param_set per
\* parameter entry, palette_set if the chapter has a palette, one audio_bind
\* per binding, one automation command if the chapter has automations, and
\* chapter_info last; every open socket is sent them in that order.
C15_EmissionOrder ==
  (last.op \in {"play", "timer", "jump"} /\ last.result = "pushed") =>
    LET chapters == SetlistFile(last.name)
        ch == chapters[last.index + 1]
        preset == PresetFile(ch.shader)
        np == Len(ch.params)
        pal == IF ch.palette # None THEN 1 ELSE 0
        nb == Len(ch.audio_bindings)
        auto == IF Len(ch.automations) > 0 THEN 1 ELSE 0
    IN ch.transition_in \in {"cut", "crossfade"} =>
         /\ Len(bcast) = 1 + np + pal + nb + auto + 1
         /\ bcast[1] = IF ch.transition_in = "crossfade"
                       THEN ShaderCrossfade(preset.code, preset.id,
                                            ch.transition_duration)
                       ELSE ShaderPush(preset.code, preset.id)
         /\ \A k \in 1..np :
              bcast[1 + k] = ParamSet(ch.params[k][1], ch.params[k][2])
         /\ pal = 1 => bcast[1 + np + 1] = PaletteSet(ch.palette[1])
         /\ \A k \in 1..nb :
              bcast[1 + np + pal + k] = AudioBind(ch.audio_bindings[k])
         /\ auto = 1 =>
              bcast[1 + np + pal + nb + 1] = AutomationMsg(ch.automations)
         /\ bcast[Len(bcast)] = ChapterInfo(ch.name, last.index, Len(chapters))
         /\ \A s \in Sessions :
              sent[s] = IF s \in clients /\ readyState[s] = "OPEN"
                        THEN bcast ELSE <<>>

\* C15 happens: the crossfade chapter of "A", with two params, a palette, two
\* bindings and automations, is emitted to an open socket
C15_Witness ==
  /\ last.op = "timer"
  /\ last.result = "pushed"
  /\ last.name = "A"
  /\ last.index = 1
  /\ \E s \in Sessions : sent[s] = bcast /\ Len(bcast) = 8

\* C16: when the chapter's shader preset no longer resolves at emission time,
\* the emission skips only the shader command: the chapter's param_set,
\* palette_set, audio_bind, automation and chapter_info commands are still
\* broadcast, in that order.
C16_MissingPresetSkipsShaderOnly ==
  (last.op \in {"play", "timer", "jump"} /\ last.result = "preset_missing") =>
    LET chapters == SetlistFile(last.name)
        ch == chapters[last.index + 1]
    IN bcast = ParamMsgs(ch.params)
               \o (IF ch.palette # None THEN <<PaletteSet(ch.palette[1])>> ELSE <<>>)
               \o BindMsgs(ch.audio_bindings)
               \o (IF Len(ch.automations) > 0
                   THEN <<AutomationMsg(ch.automations)>> ELSE <<>>)
               \o <<ChapterInfo(ch.name, last.index, Len(chapters))>>

\* C17: under uninterrupted playback the chapters are emitted once each in
\* increasing index order (the record of emitted indices is always 0, 1, 2, ...
\* and never longer than the timeline), and once play() has been called the
\* playback eventually is stopped with every chapter emitted, no timer pending
\* and no handler suspended.
C17_RunsToTheEnd ==
  /\ [](/\ \A k \in 1..Len(emitted) : emitted[k] = k - 1
        /\ activeSetlist # Null => Len(emitted) <= Len(Chapters(activeSetlist)))
  /\ (setlistPlayback.startedAt # 0)
       ~> (/\ Len(emitted) = Len(Chapters(activeSetlist))
           /\ ~setlistPlayback.active
           /\ timers = {}
           /\ tasks = <<>>)

C17_Witness ==
  /\ activeSetlist = "D"
  /\ emitted = <<0, 1, 2>>
  /\ ~setlistPlayback.active
  /\ timers = {}
  /\ tasks = <<>>

\* C18: while the last chapter is current, playback is running and unpaused,
\* the chapter's handler has completed and the chapter's duration has not
\* elapsed, a timer is pending and playback is reported active.
C18_LastChapterStaysActive ==
  (/\ running
   /\ ~isPaused
   /\ tasks = <<>>
   /\ activeSetlist # Null
   /\ currentChapterIndex = Len(Chapters(activeSetlist)) - 1
   /\ chapterClock < CurrentChapterMs)
    => (timers # {} /\ setlistPlayback.active)

\* C19: a call setExternalInput(i, v) with i in 0..15 makes the next state read
\* return v at index i, every other channel, the XY pairs and bpm as they
\* were, and broadcasts that one ext_set; with i outside 0..15 it fails with a
\* range error, the state read returns what it returned before and nothing is
\* broadcast.
C19_SetExternalInputFrame ==
  [][last'.op = "setExternalInput" =>
       IF last'.index \in 0..(NumExt - 1)
       THEN /\ last'.result = "ok"
            /\ \E v \in ValueInputs :
                 /\ GetServerState'.extChannels[last'.index] = v
                 /\ bcast' = <<ExtSet(last'.index, v)>>
            /\ \A j \in (0..(NumExt - 1)) \ {last'.index} :
                 GetServerState'.extChannels[j] = GetServerState.extChannels[j]
            /\ GetServerState'.extXY = GetServerState.extXY
            /\ GetServerState'.bpm = GetServerState.bpm
       ELSE /\ last'.result = "RangeError"
            /\ GetServerState' = GetServerState
            /\ NothingSent']_vars

C19_Witness ==
  /\ last.op = "setExternalInput"
  /\ last.result = "ok"
  /\ last.index = 15
  /\ extChannels[15] = 0
  /\ extChannels[0] = 7
  /\ extXY[3].x = 7
  /\ bpm = Bpm(140)
  /\ clients # {}

\* C20: the mirrored bpm is always within 1..999.
C20_BpmInRange == bpm >= Bpm(1) /\ bpm <= Bpm(999)

\* the bindings a list holds for a target
BindingsFor(list, target) ==
  {list[k] : k \in {j \in 1..Len(list) : list[j].target = target}}

\* C21: the mirror never holds two bindings for one target; an audio_bind call
\* broadcasts exactly one audio_bind command and leaves the mirror with the
\* binding of that call for its target and every other target as it was; an
\* audio_unbind call only removes the binding of its target; no other step
\* changes the mirrored bindings.
C21_OneBindingPerTarget ==
  /\ [](\A j, k \in 1..Len(audioBindings) :
          audioBindings[j].target = audioBindings[k].target => j = k)
  /\ [][CASE last'.op = "audio_bind" ->
               \E b \in BindInputs :
                 /\ bcast' = <<AudioBind(b)>>
                 /\ BindingsFor(audioBindings', b.target) = {b}
                 /\ \A t \in TargetInputs \ {b.target} :
                      BindingsFor(audioBindings', t) = BindingsFor(audioBindings, t)
            [] last'.op = "audio_unbind" ->
                 /\ BindingsFor(audioBindings', last'.name) = {}
                 /\ \A t \in TargetInputs \ {last'.name} :
                      BindingsFor(audioBindings', t) = BindingsFor(audioBindings, t)
            [] OTHER -> audioBindings' = audioBindings]_vars

C21_Witness ==
  /\ last.op = "audio_bind"
  /\ audioBindings = <<Binding("mid", "u_param2", 2, 0, 1),
                       Binding("mid", "u_param1", 2, 0, 1)>>
  /\ \E s \in Sessions : sent[s] = <<AudioBind(Binding("mid", "u_param1", 2, 0, 1))>>

\* the state change that goes with the broadcast of the last step
EffectApplied ==
  LET m == bcast'[1]
  IN CASE last'.op = "setExternalInput" ->
            last'.result = "ok" /\ extChannels'[m.channel] = m.value
       [] last'.op = "setExternalXY" ->
            last'.result = "ok" /\ extXY'[m.channel] = [x |-> m.x, y |-> m.y]
       [] last'.op = "setBpm" -> last'.result = "ok" /\ bpm' = m.bpm
       [] last'.op = "perform_push" ->
            last'.result = "pushed" /\ currentShaderId' = m.id
       [] last'.op = "perform_crossfade" ->
            last'.result = "crossfading" /\ currentShaderId' = m.id
       [] last'.op = "audio_bind" ->
            last'.result = "bound"
              /\ BindingsFor(audioBindings', m.binding.target) = {m.binding}
       [] last'.op = "audio_unbind" ->
            last'.result = "unbound" /\ BindingsFor(audioBindings', m.target) = {}
       [] last'.op \in {"play", "timer"} ->
            /\ last'.result = "pushed"
            /\ Len(tasks') = Len(tasks) - 1
            /\ currentShaderId' = PresetFile(SetlistFile(last'.name)[last'.index + 1].shader).id
            /\ \/ last'.armed >= 0 /\ timers' # timers
               \/ ~setlistPlayback'.active
       [] OTHER -> FALSE

\* C22: a broadcast made while no session is connected delivers nothing, and
\* the operation that made it returns its success result with its state
\* change applied.
C22_BroadcastToNobody ==
  [][(clients = {} /\ bcast' # <<>>) =>
       ((\A s \in Sessions : sent'[s] = <<>>) /\ EffectApplied)]_vars

C22_Witness ==
  /\ clients = {}
  /\ bcast # <<>>
  /\ \A s \in Sessions : sent[s] = <<>>
  /\ last.op = "timer"
  /\ last.result = "pushed"
  /\ bpm = Bpm(140)
  /\ audioBindings # <<>>

\* C23: in every step each session that is registered and open is sent
\* exactly the commands broadcast in that step, in the order in which they
\* were broadcast; a session that is not registered or not open is sent none
\* of them.
C23_BroadcastFifo ==
  [][\A s \in Sessions :
       IF s \in clients /\ readyState[s] = "OPEN"
       THEN sent'[s] = bcast'
       ELSE last'.op # "connect" => sent'[s] = <<>>]_vars

C23_Witness ==
  /\ \A s \in Sessions : s \in clients /\ readyState[s] = "OPEN" /\ sent[s] = bcast
  /\ Len(bcast) >= 6
  /\ bcast[Len(bcast)].type = "chapter_info"

\* C24: a broadcast removes from the client set every registered session
\* whose socket is not open; the close and the error handler remove their
\* session from the client set; and a session outside the client set is sent
\* nothing by a broadcast.
C24_DeadSessionsDropped ==
  [][/\ \A s \in Sessions :
          (s \in clients /\ readyState[s] # "OPEN" /\ bcast' # <<>>)
            => s \notin clients'
     /\ last'.op \in {"close", "error"} => last'.session \notin clients'
     /\ \A s \in Sessions :
          (s \notin clients /\ last'.op # "connect") => sent'[s] = <<>>]_vars

\* the targets the table holds for an address
TargetsFor(mappings, address) ==
  {mappings[k].target : k \in {j \in 1..Len(mappings) : mappings[j].address = address}}

C26_OneListener ==
  /\ Cardinality(listeners) <= 1
  /\ IF oscInstance # 0
     THEN listeners = {[id |-> oscInstance, port |-> GetOscPort]}
     ELSE listeners = {} /\ GetOscPort = Null

C26_Witness ==
  /\ last.op = "startOscBridge"
  /\ last.result = "restarted"
  /\ listeners = {[id |-> oscInstance, port |-> 9001]}
  /\ GetOscPort = 9001

\* C27: resolve is never called twice for a validation request; a request is
\* in the pending table, with its timeout armed, exactly while it has been
\* made and is not resolved; a resolution is made by a shader_validated
\* message carrying the request's id, with that message's verdict, or by the
\* request's timeout, with a failure; and every request made is eventually
\* resolved.
C27_ResolvedExactlyOnce ==
  /\ [](\A id \in 1..MaxValidations :
          /\ Len(resolutions[id]) <= 1
          /\ id \in validationCallbacks <=> (id <= requested /\ resolutions[id] = <<>>)
          /\ (\E t \in validationTimers : t.id = id) <=> id \in validationCallbacks)
  /\ [][\A id \in 1..MaxValidations :
          resolutions'[id] # resolutions[id] =>
            /\ resolutions[id] = <<>>
            /\ last'.index = id
            /\ \/ last'.op = "shader_validated"
               \/ /\ last'.op = "validation_timeout"
                  /\ resolutions'[id] = <<[success |-> FALSE]>>
                  /\ \E t \in validationTimers : t.id = id /\ t.due <= now]_vars
  /\ \A id \in 1..MaxValidations : (requested >= id) ~> (resolutions[id] # <<>>)

C27_Witness ==
  /\ requested = 2
  /\ resolutions[1] = <<[success |-> TRUE]>>
  /\ resolutions[2] = <<[success |-> FALSE]>>
  /\ last.op = "validation_timeout"
  /\ validationCallbacks = {}
  /\ validationTimers = {}
  /\ clients = {}

\* the slots a perform_palette call provides, and whether one of them is not
\* a colour
Provided(args) == {k \in {"color1", "color2", "color3", "bg"} : args[k] # None}
AnyInvalid(args) == \E k \in Provided(args) : ~ValidHex(args[k][1])

\* C28: a perform_palette call none of whose provided colours is invalid
\* broadcasts and mirrors one palette in which each provided slot holds the
\* new colour and every other slot what the mirror held before; a call with an
\* invalid provided colour broadcasts nothing and leaves the mirror unchanged.
C28_PartialPaletteUpdate ==
  [][\A a \in PaletteInputs :
       PerformPalette(a) =>
         IF AnyInvalid(a)
         THEN NothingSent' /\ GetCurrentPalette' = GetCurrentPalette
         ELSE /\ bcast' = <<PaletteSet(GetCurrentPalette')>>
              /\ \A k \in {"color1", "color2", "color3", "bg"} :
                   GetCurrentPalette'[k] =
                     IF k \in Provided(a) THEN HexToRgb(a[k][1])
                     ELSE GetCurrentPalette[k]]_vars

\* C29: while playback stays paused, a step that is neither a call of play,
\* jump, load or delete nor the continuation of one leaves currentChapterIndex
\* as it is and broadcasts no chapter command.
C29_NoTransitionWhilePaused ==
  [][(isPaused /\ isPaused'
        /\ last'.op \notin {"play", "jump", "load", "delete"})
       => /\ currentChapterIndex' = currentChapterIndex
          /\ \A k \in 1..Len(bcast') : bcast'[k].type # "chapter_info"]_vars

\* C30: the delayed shader_push of a flash transition, once armed, is never
\* cancelled: its timer goes away only by firing, and when it fires the
\* shader_push of the chapter that armed it is broadcast, whatever the
\* scheduler's current chapter is.
C30_FlashPushNotCancelled ==
  [][\A f \in flashTimers :
       f \notin flashTimers' =>
         (last'.op = "flash" /\ bcast' = <<ShaderPush(f.code, f.id)>>)]_vars

\* a jump inside the flash window of chapter 0: the chapter jumped to has been
\* emitted, then the delayed push fired, and the renderers are on chapter 0's
\* shader while the scheduler is in chapter 1
C30_Witness ==
  /\ activeSetlist = "F"
  /\ emitted = <<0, 1>>
  /\ last.op = "flash"
  /\ tasks = <<>>
  /\ currentChapterIndex = 1
  /\ wire.shader = Some([id |-> PresetFile("p3").id, code |-> PresetFile("p3").code])
  /\ PresetFile(Chapters("F")[2].shader).id # PresetFile("p3").id

\* the selector a jump call goes by: index before name before time
JumpSelector(args) ==
  CASE args.index # None -> "index"
    [] args.name # None /\ args.name[1] # "" -> "name"
    [] args.time # None -> "time"
    [] OTHER -> "none"

\* does chapter k (0-based) match the selector the call goes by
JumpMatches(args, chapters, k) ==
  CASE JumpSelector(args) = "index" -> k = args.index[1]
    [] JumpSelector(args) = "name" ->
         ToLowerCase(chapters[k + 1].name) = ToLowerCase(args.name[1])
    [] JumpSelector(args) = "time" ->
         chapters[k + 1].start_time <= args.time[1]
           /\ args.time[1] < chapters[k + 1].end_time
    [] OTHER -> FALSE

C32_JumpFrame ==
  /\ (last.op = "jump" /\ last.result = "pushed") =>
       /\ currentChapterIndex = last.index
       /\ pauseOffset = 0
       /\ \E k \in 1..Len(bcast) :
            /\ bcast[k].type = "chapter_info"
            /\ bcast[k].chapter.index = last.index
       /\ isPaused => timers = {}
       /\ ~isPaused =>
            /\ playbackStartedAt = now
            /\ \E t \in timers : t.next = currentChapterIndex + 1
                                   /\ t.due = now + CurrentChapterMs
            /\ Cardinality(timers) = 1
  /\ (last.op = "play" /\ last.result = "pushed" /\ last.resumed /\ pauseOffset = 0) =>
       \E t \in timers : t.next = currentChapterIndex + 1
                           /\ t.due = now + CurrentChapterMs

\* C33: an OSC message for a custom address with a mapping to u_ext[N] makes
\* exactly one ext_set for channel N, N one of the ext channels, with the
\* message's first argument; with a mapping to any other target, exactly one
\* param_set named by the target; without mapping, nothing is broadcast and
\* no state changes.
C33_CustomAddressRouting ==
  [][\A l \in listeners, a \in ArgsInputs :
       OscCustom(l, "/fader", a) =>
         LET targets == TargetsFor(customMappings, "/fader")
             value == ArgOr(a, 0, 0)
         IN /\ UNCHANGED <<oscVars, restVars>>
            /\ targets = {} => bcast' = <<>>
            /\ \A t \in targets :
                 IF ExtMatch(t) # None
                 THEN /\ bcast' = <<ExtSet(ExtMatch(t)[1], value)>>
                      /\ ExtMatch(t)[1] \in 0..(NumExt - 1)
                 ELSE bcast' = <<ParamSet(t, value)>>]_vars

\* C34: a frame of a renderer that does not parse, a frame of unknown kind
\* and a shader_validated frame whose id matches no pending request change
\* neither the mirror, the pending validations nor the scheduler, send
\* nothing, and leave the renderer's socket open and registered, so that its
\* later frames are processed.
C34_UnknownFramesDropped ==
  [][\A s \in Sessions :
       (\/ \E msg \in FrameInputs :
             /\ ~msg.parses \/ msg.type \notin LoggedTypes \cup {"state"}
             /\ ClientMessage(s, msg)
        \/ \E id \in ValidationIds \ validationCallbacks, ok \in BOOLEAN :
             ShaderValidated(s, id, ok))
       => /\ UNCHANGED <<mirrorVars, setlistPlayback, lastRuntimeState, validVars,
                         schedVars, loopVars, hubVars>>
          /\ bcast' = <<>>
          /\ s \in clients' /\ readyState'[s] = "OPEN"
          /\ \A later \in FrameInputs : (ENABLED ClientMessage(s, later))']_vars

C34_Witness ==
  /\ last.op = "message"
  /\ last.result = "unhandled"
  /\ validationCallbacks # {}
  /\ timers # {}
  /\ currentShaderId = "p2"

\* C35: an OSC palette message for one slot leaves the palette the renderers
\* have been told different from the one before in that slot only: the slot
\* holds the message's colour, the other three slots what they held.
C35_OscPaletteOneSlot ==
  [][\A key \in PaletteKeys, args \in OscColorInputs :
       OscPalette(key, args) =>
         /\ wire'.palette[key] =
              <<ArgOr(args, 0, 0), ArgOr(args, 1, 0), ArgOr(args, 2, 0)>>
         /\ \A other \in PaletteKeys \ {key} :
              wire'.palette[other] = wire.palette[other]]_vars

\* C36: whenever a setlist is loaded, currentChapterIndex is an index of one
\* of its chapters.
C36_ChapterIndexValid ==
  activeSetlist # Null =>
    (0 <= currentChapterIndex /\ currentChapterIndex < Len(Chapters(activeSetlist)))

\* C37: a timer that fires moves currentChapterIndex from its value i to
\* i + 1, and no step but a timer's, a jump or a load changes the index.
C37_TimerAdvancesByOne ==
  [][/\ \A t \in timers : TimerFire(t) => currentChapterIndex' = currentChapterIndex + 1
     /\ currentChapterIndex' # currentChapterIndex =>
          last'.op \in {"timer", "jump", "load"}]_vars

\* C38: the first play after a load, whatever was played or paused before,
\* arms the timer for the full duration of chapter 0.
C38_FirstPlayFullDuration ==
  [][\A i \in 1..Len(tasks) :
       (/\ tasks[i].kind = "play"
        /\ emitted = <<>>
        /\ Resume(i))
       => /\ currentChapterIndex' = 0
          /\ last'.armed = CurrentChapterMs'
          /\ \E t \in timers' : t.next = 1 /\ t.due = now + CurrentChapterMs']_vars

\* the commands of a chapter bundle other than its first and its last
BodyTypes == {"param_set", "palette_set", "audio_bind", "automation"}

\* the bundle that ends with the chapter_info at position k of the stream:
\* its chapter, and the position its first command must have
InfoChapter(k) == Chapters(activeSetlist)[stream[k].chapter.index + 1]
BundleStart(k) ==
  LET ch == InfoChapter(k)
  IN k - (Len(ch.params) + (IF ch.palette # None THEN 1 ELSE 0)
            + Len(ch.audio_bindings)
            + (IF Len(ch.automations) > 0 THEN 1 ELSE 0) + 1)

\* position k lies inside a bundle
InBundle(k) ==
  \E j \in k..Len(stream) :
    stream[j].type = "chapter_info" /\ BundleStart(j) <= k

\* C39: in the broadcast stream every chapter_info is preceded, without any
\* other command in between, by the commands of its chapter from the shader
\* command (or the flash) on, and every chapter command of the stream lies
\* inside such a bundle, but for the delayed shader_push of a flash
\* transition.
C39_BundlesContiguous ==
  activeSetlist # Null =>
    \A k \in 1..Len(stream) :
      /\ stream[k].type = "chapter_info" =>
           /\ BundleStart(k) >= 1
           /\ stream[BundleStart(k)] =
                (CASE InfoChapter(k).transition_in = "crossfade" ->
                        ShaderCrossfade(PresetFile(InfoChapter(k).shader).code,
                                        PresetFile(InfoChapter(k).shader).id,
                                        InfoChapter(k).transition_duration)
                   [] InfoChapter(k).transition_in = "flash" ->
                        PerformFlash(InfoChapter(k).transition_duration)
                   [] OTHER -> ShaderPush(PresetFile(InfoChapter(k).shader).code,
                                          PresetFile(InfoChapter(k).shader).id))
           /\ \A j \in (BundleStart(k) + 1)..(k - 1) : stream[j].type \in BodyTypes
      /\ stream[k].type \in BodyTypes \cup {"shader_crossfade", "perform_flash"} =>
           InBundle(k)
      /\ stream[k].type = "shader_push" =>
           \/ InBundle(k)
           \/ \E c \in 1..Len(Chapters(activeSetlist)) :
                /\ Chapters(activeSetlist)[c].transition_in = "flash"
                /\ PresetFile(Chapters(activeSetlist)[c].shader).id = stream[k].id

C39_Witness ==
  /\ activeSetlist = "A"
  /\ \E k \in 2..Len(stream) :
       /\ stream[k].type = "ext_set"
       /\ stream[k - 1].type = "chapter_info"
       /\ stream[k - 1].chapter.index = 0
  /\ stream[Len(stream)].type = "chapter_info"
  /\ stream[Len(stream)].chapter.index = 1
  /\ last.op = "jump"
  /\ tasks # <<>>

\* C40: whenever a chapter-advance timer is pending, the playback record
\* reports playback active.
C40_TimerImpliesActive ==
  timers # {} => setlistPlayback.active

====
